---- MODULE Spec2Model ----
(***************************************************************************)
(* Von Neumann simulator: the pure CPU core of src/src/cpu.js              *)
(* (parseInstr, parseData, step).                                          *)
(*                                                                         *)
(* Values.  A memory cell, and the IR, hold a JavaScript value that is a   *)
(* number, a string or undefined.  A string is a sequence of one-character *)
(* strings, so that trimming, splitting, upper-casing and Number() are     *)
(* computed and not assumed.  Numbers are integers: the inputs of the      *)
(* model never hold a fraction, an exponent, a hex literal or "Infinity".  *)
(*                                                                         *)
(* Memory.  A JavaScript array: a length plus its own properties.  The     *)
(* properties with keys 0..length-1 are its elements (an absent key is a   *)
(* hole and reads as undefined); a write to a negative key creates a       *)
(* non-index property that Array.prototype.slice does not copy.            *)
(***************************************************************************)
EXTENDS Integers, Sequences, FiniteSets, TLC

VARIABLES
  memory,      \* state.memory
  pc,          \* state.pc
  ir,          \* state.ir
  acc,         \* state.acc
  phase,       \* state.phase
  halted,      \* state.halted
  outputs,     \* state.outputs
  lastAction,  \* the description step returned (its kind, without the numbers)
  size,        \* history: the number of cells the machine was loaded with
  lastStored,  \* history: operand a |-> the ACC the latest STORE a wrote,
               \* forgotten when a later STORE writes the cell a denotes
  fetchedFrom, \* history: PC, memory length and memory[PC] at the latest Fetch
  outLog,      \* history: the ACC of every OUT executed since load or reset
  steps,       \* history: the step calls since load or reset, up to MaxSteps
  loadedFrom,  \* history: the source text and bindings of the latest load
  running,     \* component: run mode (the state running)
  refs,        \* component: the refs phaseRef, irRef, pcRef, accRef, memRef,
               \* haltedRef, runningRef, and whether timerRef holds a
               \* timeout that has not fired and was not cleared
  caller,      \* history: the memory array the latest step call was given, as
               \* the caller sees it after the call, and whether the returned
               \* state holds that same array
  pending,     \* component: a timer tick has set state and the component has
               \* not rendered since
  rendered     \* component: the values of running, halted, phase, ir, pc, acc
               \* and memory at the latest render (the effects' dependencies)

vars ==
  <<memory, pc, ir, acc, phase, halted, outputs, lastAction, size, lastStored,
    fetchedFrom, outLog, steps, loadedFrom, running, refs, pending, caller,
    rendered>>

(* ------------------------------ bounds --------------------------------- *)

\* number of cells of the generated memory images
MemSize == 3
\* |ACC| is capped: a step that would leave this range is not taken
MaxAcc == 8
\* OUT is not executed once this many OUTs have been logged
MaxOuts == 52
\* the step counter stops counting here
MaxSteps == 20
\* the longest generated cell text
MaxLen == 3

(* ------------------------- program constants --------------------------- *)

\* outputs keeps the last 50 entries: .slice(-50)
OutCap == 50

(* --------------------------- JavaScript values ------------------------- *)

Num(n) == [t |-> "number", n |-> n, s |-> <<>>]
Str(s) == [t |-> "string", n |-> 0, s |-> s]
Undef == [t |-> "undefined", n |-> 0, s |-> <<>>]

Min(a, b) == IF a < b THEN a ELSE b
Max(a, b) == IF a > b THEN a ELSE b

\* clamp = (v, min, max) => Math.max(min, Math.min(max, v))
clamp(v, lo, hi) == Max(lo, Min(hi, v))

\* isNumber: typeof x === "number" && !Number.isNaN(x)  (no NaN is ever stored)
isNumber(x) == x.t = "number"

(* ------------------------------ strings -------------------------------- *)

IsSpace(c) == c \in {" ", "\t"}

RECURSIVE TrimStart(_)
TrimStart(s) ==
  IF s # <<>> /\ IsSpace(Head(s)) THEN TrimStart(Tail(s)) ELSE s

RECURSIVE TrimEnd(_)
TrimEnd(s) ==
  IF s # <<>> /\ IsSpace(s[Len(s)]) THEN TrimEnd(SubSeq(s, 1, Len(s) - 1)) ELSE s

\* String.prototype.trim
Trim(s) == TrimEnd(TrimStart(s))

\* txt.replace(/\s+/g, " "): every maximal run of white space becomes one blank
RECURSIVE CollapseSpaces(_)
CollapseSpaces(s) ==
  IF s = <<>> THEN <<>>
  ELSE IF IsSpace(Head(s))
       THEN <<" ">> \o CollapseSpaces(TrimStart(s))
       ELSE <<Head(s)>> \o CollapseSpaces(Tail(s))

\* .split(" "): the pieces between single blanks (a piece may be empty)
RECURSIVE SplitBlank(_, _)
SplitBlank(s, cur) ==
  IF s = <<>> THEN <<cur>>
  ELSE IF Head(s) = " "
       THEN <<cur>> \o SplitBlank(Tail(s), <<>>)
       ELSE SplitBlank(Tail(s), Append(cur, Head(s)))

Lower == <<"a","b","c","d","e","f","g","h","i","j","k","l","m",
           "n","o","p","q","r","s","t","u","v","w","x","y","z">>
Upper == <<"A","B","C","D","E","F","G","H","I","J","K","L","M",
           "N","O","P","Q","R","S","T","U","V","W","X","Y","Z">>

UpperChar(c) ==
  IF \E i \in 1..26 : Lower[i] = c
  THEN Upper[CHOOSE i \in 1..26 : Lower[i] = c]
  ELSE c

\* String.prototype.toUpperCase
toUpperCase(s) == [i \in 1..Len(s) |-> UpperChar(s[i])]

Digits == <<"0","1","2","3","4","5","6","7","8","9">>
IsDigit(c) == \E i \in 1..10 : Digits[i] = c
DigitVal(c) == (CHOOSE i \in 1..10 : Digits[i] = c) - 1

RECURSIVE DigitsVal(_, _)
DigitsVal(s, a) ==
  IF s = <<>> THEN a ELSE DigitsVal(Tail(s), 10 * a + DigitVal(Head(s)))

AllDigits(s) == s # <<>> /\ \A i \in 1..Len(s) : IsDigit(s[i])

\* Number(str) for the strings of the model: white space is trimmed, the
\* empty string is 0, an optionally signed run of digits is that integer,
\* anything else is NaN.  fin is Number.isFinite of the result.
Number(str) ==
  LET s == Trim(str) IN
  IF s = <<>> THEN [fin |-> TRUE, v |-> 0]
  ELSE IF AllDigits(s) THEN [fin |-> TRUE, v |-> DigitsVal(s, 0)]
  ELSE IF Head(s) = "-" /\ AllDigits(Tail(s))
       THEN [fin |-> TRUE, v |-> 0 - DigitsVal(Tail(s), 0)]
  ELSE IF Head(s) = "+" /\ AllDigits(Tail(s))
       THEN [fin |-> TRUE, v |-> DigitsVal(Tail(s), 0)]
  ELSE [fin |-> FALSE, v |-> 0]

RECURSIVE NatToStr(_)
NatToStr(n) ==
  IF n < 10 THEN <<Digits[n + 1]>>
  ELSE NatToStr(n \div 10) \o <<Digits[(n % 10) + 1]>>

\* String(n) of an integer, as a template literal `${n}` renders it
NumToStr(n) == IF n < 0 THEN <<"-">> \o NatToStr(0 - n) ELSE NatToStr(n)

(* ------------------------------ decoder -------------------------------- *)

Mnemonic ==
  [HLT |-> <<"H","L","T">>, NOP |-> <<"N","O","P">>, OUT |-> <<"O","U","T">>,
   LOAD |-> <<"L","O","A","D">>, ADD |-> <<"A","D","D">>, SUB |-> <<"S","U","B">>,
   LOADI |-> <<"L","O","A","D","I">>, ADDM |-> <<"A","D","D","M">>,
   SUBM |-> <<"S","U","B","M">>, STORE |-> <<"S","T","O","R","E">>,
   JMP |-> <<"J","M","P">>, JZ |-> <<"J","Z">>, JNZ |-> <<"J","N","Z">>]

NoArgOps == {"HLT", "NOP", "OUT"}
ImmOps == {"LOAD", "ADD", "SUB"}
AddrOps == {"LOADI", "ADDM", "SUBM", "STORE", "JMP", "JZ", "JNZ"}

\* mutant: the operand is read from the last token, parts[parts.length - 1]
parseTextLastToken(txt) ==
  IF txt = <<>> THEN [op |-> "NOP", args |-> <<>>]
  ELSE
    LET parts == SplitBlank(CollapseSpaces(txt), <<>>)
        op == toUpperCase(parts[1])
        hasArg == Len(parts) >= 2
        num == IF hasArg THEN Number(parts[Len(parts)]) ELSE [fin |-> FALSE, v |-> 0]
        operand == IF num.fin THEN num.v ELSE 0
    IN
    IF \E k \in NoArgOps : Mnemonic[k] = op
    THEN [op |-> CHOOSE k \in NoArgOps : Mnemonic[k] = op, args |-> <<>>]
    ELSE IF \E k \in ImmOps : Mnemonic[k] = op
    THEN [op |-> CHOOSE k \in ImmOps : Mnemonic[k] = op, args |-> <<operand>>]
    ELSE IF \E k \in AddrOps : Mnemonic[k] = op
    THEN [op |-> CHOOSE k \in AddrOps : Mnemonic[k] = op, args |-> <<operand>>]
    ELSE [op |-> "INVALID", args |-> <<txt>>]

\* parseInstr from its test txt === "" on: the decoding of the trimmed text
parseText(txt) ==
  IF txt = <<>> THEN [op |-> "NOP", args |-> <<>>]
  ELSE
    LET parts == SplitBlank(CollapseSpaces(txt), <<>>)
        op == toUpperCase(parts[1])
        hasArg == Len(parts) >= 2
        num == IF hasArg THEN Number(parts[2]) ELSE [fin |-> FALSE, v |-> 0]
        operand == IF num.fin THEN num.v ELSE 0
    IN
    IF \E k \in NoArgOps : Mnemonic[k] = op
    THEN [op |-> CHOOSE k \in NoArgOps : Mnemonic[k] = op, args |-> <<>>]
    ELSE IF \E k \in ImmOps : Mnemonic[k] = op
    THEN [op |-> CHOOSE k \in ImmOps : Mnemonic[k] = op, args |-> <<operand>>]
    ELSE IF \E k \in AddrOps : Mnemonic[k] = op
    THEN [op |-> CHOOSE k \in AddrOps : Mnemonic[k] = op, args |-> <<operand>>]
    ELSE [op |-> "INVALID", args |-> <<txt>>]

\* mutant: the text is decoded without .trim()
parseInstrUntrimmed(raw) ==
  IF raw.t = "undefined" THEN [op |-> "NOP", args |-> <<>>]
  ELSE IF raw.t = "number" THEN [op |-> "DATA", args |-> <<raw.n>>]
  ELSE parseText(raw.s)

\* parseInstr(raw): {op, args}
parseInstr(raw) ==
  IF raw.t = "undefined" THEN [op |-> "NOP", args |-> <<>>]
  ELSE IF raw.t = "number" THEN [op |-> "DATA", args |-> <<raw.n>>]
  ELSE parseText(Trim(raw.s))

\* mutant: instruction text is read as its operand
parseDataOfOperand(cell) ==
  IF isNumber(cell) THEN cell.n
  ELSE IF cell.t = "string"
       THEN LET n == Number(Trim(cell.s)) IN
            IF n.fin THEN n.v
            ELSE IF parseInstr(cell).op \in ImmOps \cup AddrOps
                 THEN parseInstr(cell).args[1] ELSE 0
       ELSE 0

\* parseData(cell): the numeric value of a memory cell
parseData(cell) ==
  IF isNumber(cell) THEN cell.n
  ELSE IF cell.t = "string"
       THEN LET n == Number(Trim(cell.s)) IN IF n.fin THEN n.v ELSE 0
       ELSE 0

(* ------------------------------- arrays -------------------------------- *)

\* the array holding the elements of a sequence
ArrayOf(seq) ==
  [length |-> Len(seq), el |-> [i \in 0..(Len(seq) - 1) |-> seq[i + 1]]]

\* m[k]: an own property, or undefined
MemGet(m, k) == IF k \in DOMAIN m.el THEN m.el[k] ELSE Undef

\* m.slice(): the elements 0..length-1; non-index properties are not copied
MemSlice(m) ==
  [length |-> m.length,
   el |-> [k \in {j \in DOMAIN m.el : j >= 0 /\ j < m.length} |-> m.el[k]]]

\* m[k] = v: an index at or past the end grows the array, a negative key
\* becomes a plain property and leaves length alone
MemSet(m, k, v) ==
  [length |-> IF k >= 0 THEN Max(m.length, k + 1) ELSE m.length,
   el |-> (k :> v) @@ m.el]

(* ------------------------------ programs ------------------------------- *)

Ins(op) == Str(Mnemonic[op])
InsArg(op, n) == Str(Mnemonic[op] \o <<" ">> \o NumToStr(n))
Empty == Str(<<>>)

\* the cells the generated memory images are built from: addresses and
\* jump targets below 0 and past the last cell, a value for ACC, a halt
Pool ==
  { Empty, InsArg("LOAD", 5), InsArg("STORE", 4), InsArg("STORE", -1),
    InsArg("LOADI", -1), InsArg("JZ", 7), InsArg("JNZ", -2), Ins("HLT") }

\* every memory image of MemSize cells over Pool
Generated == { ArrayOf(p) : p \in [1..MemSize -> Pool] }

\* cells 0.. of a memory image of n cells, the rest empty
Image(prog, n) ==
  ArrayOf([i \in 1..n |-> IF i <= Len(prog) THEN prog[i] ELSE Empty])

\* sampleProgram of cpu.js, in a memory of 16 cells
sampleProgram ==
  <<InsArg("LOAD", 5), InsArg("ADD", 3), InsArg("STORE", 40), Ins("OUT"), Ins("HLT")>>

\* hand-written memory images: each opcode, loops, text that is no instruction
Extra ==
  { Image(sampleProgram, 16),
    \* 51 and more OUTs: the first value written differs from the later ones
    ArrayOf(<<InsArg("LOAD", 5), Ins("OUT"), InsArg("SUB", 5), Ins("OUT"),
              InsArg("JMP", 3)>>),
    \* a loop that counts ACC up and prints it
    ArrayOf(<<InsArg("ADD", 1), Ins("OUT"), InsArg("JMP", 0)>>),
    \* STORE to a negative key, another STORE, then LOADI of the negative key
    ArrayOf(<<InsArg("LOAD", 5), InsArg("STORE", -1), InsArg("STORE", 1),
              InsArg("LOADI", -1), Ins("HLT")>>),
    \* STORE past the end, then read it back and jump to it
    ArrayOf(<<InsArg("LOAD", 3), InsArg("STORE", 6), InsArg("LOADI", 6),
              InsArg("JMP", 6)>>),
    \* memory operands in range and out of range; a data word in the path
    ArrayOf(<<InsArg("LOAD", 2), InsArg("ADDM", 5), InsArg("SUBM", 9),
              InsArg("ADDM", 9), InsArg("SUBM", -4), Num(3), InsArg("LOADI", 9),
              Ins("NOP"), Str(<<"F","O","O">>)>>),
    \* a memory operand past the end while the last cell holds a number
    ArrayOf(<<InsArg("LOAD", 2), InsArg("ADDM", 9), InsArg("SUBM", 9),
              InsArg("LOADI", 9), Ins("HLT"), Num(3)>>),
    \* jumps out of range, taken and not taken
    ArrayOf(<<InsArg("JNZ", 9), InsArg("LOAD", 1), InsArg("JZ", -3),
              InsArg("JNZ", 9), Ins("HLT"), InsArg("JMP", -5)>>),
    ArrayOf(<<InsArg("JMP", 9), Ins("HLT"), InsArg("SUB", 1), InsArg("JZ", 9)>>),
    \* memory operands that denote instruction text, numeric text, a number
    \* and an empty cell
    ArrayOf(<<InsArg("LOAD", 2), InsArg("ADDM", 0), InsArg("SUBM", 7),
              InsArg("ADDM", 8), InsArg("LOADI", 1), InsArg("LOADI", 9),
              Ins("HLT"), Str(<<" ", "3">>), Num(4), Empty>>),
    \* in a memory of 16 cells: reads and jumps outside the memory, a data
    \* word in the path, a loop
    Image(<<InsArg("LOAD", 2), InsArg("SUBM", 20), InsArg("LOADI", -1),
            InsArg("JZ", 40), Ins("HLT")>>, 16),
    Image(<<InsArg("SUB", 1), InsArg("JNZ", 3), Ins("HLT"), InsArg("ADDM", 0),
            Num(1), InsArg("JMP", -7), Ins("HLT"), Str(<<"F", "O", "O">>)>>, 16),
    Image(<<InsArg("JZ", 6), Ins("HLT"), Ins("HLT"), Ins("HLT"), Ins("HLT"),
            Ins("HLT"), InsArg("STORE", 15), InsArg("JNZ", 20),
            Str(<<"F", "O", "O">>)>>, 16),
    \* a STORE that overwrites its own cell, in a loop that comes back to it
    ArrayOf(<<InsArg("LOAD", 5), InsArg("STORE", 1), InsArg("JMP", 0)>>),
    \* lower case, extra white space, a missing and a non-numeric operand
    ArrayOf(<<Str(<<" ","l","o","a","d"," "," ","4"," ">>),
              Str(<<"a","d","d","\t","x">>), Ins("SUB"),
              Str(<<"S","T","O","R","E"," ","1"," ","2">>),
              Str(<<"o","u","t"," ","3">>), Str(<<" ">>), InsArg("ADDM", 8),
              Str(<<"h","l","t">>), Str(<<" ","3">>)>>) }

Programs == Generated \cup Extra

(* ------------------------------ CPU core ------------------------------- *)

\* the cap on ACC (MaxAcc); the code has none
InRange(v) == v >= 0 - MaxAcc /\ v <= MaxAcc

\* mutant: the advance wraps to cell 0 instead of stopping at the last cell
nextPCWraps == (pc + 1) % memory.length

\* const nextPC = () => Math.max(0, Math.min(pc + 1, memory.length - 1))
nextPC == Max(0, Min(pc + 1, memory.length - 1))

\* mutant: a jump target is taken as it is
jumpPCUnclamped(a) == a

\* Math.max(0, Math.min(arg, memory.length - 1))
jumpPC(a) == Max(0, Min(a, memory.length - 1))

decoded == parseInstr(ir)
arg == decoded.args[1]

\* one more call of step
Counted == steps' = Min(steps + 1, MaxSteps)

\* no step call yet
NoCaller == [memory |-> <<>>, same |-> TRUE]

\* { ...state }: the returned state holds the memory array step was given,
\* and step has not written to it
Kept == caller' = [memory |-> memory, same |-> TRUE]

\* mutant: const m = memory, the write goes into the array step was given
InPlace == caller' = [memory |-> memory', same |-> TRUE]

\* const m = memory.slice(): the write goes into a copy, the returned state
\* holds the copy
Copied == caller' = [memory |-> memory, same |-> FALSE]

\* no compileAndLoad has run yet
NotLoaded == [text |-> <<>>, vars |-> <<>>, over |-> <<>>]

\* step is called without the component: no run mode, no refs, no render
Unmounted ==
  /\ running = FALSE /\ refs = <<>> /\ pending = FALSE /\ rendered = <<>>
  /\ caller = NoCaller

Init ==
  /\ memory \in Programs
  /\ size = memory.length
  /\ pc = 0
  /\ ir = Ins("NOP")
  /\ acc = 0
  /\ phase = "Idle"
  /\ halted = FALSE
  /\ outputs = <<>>
  /\ lastAction = ""
  /\ lastStored = <<>>
  /\ fetchedFrom = [pc |-> 0, length |-> memory.length, cell |-> Undef]
  /\ outLog = <<>>
  /\ steps = 0
  /\ loadedFrom = NotLoaded
  /\ Unmounted

\* mutant: the halted test is missing, a halted machine fetches again
StepHaltedRefetches ==
  /\ halted
  /\ phase' = "Fetch"
  /\ lastAction' = "FETCH"
  /\ Counted
  /\ Kept
  /\ UNCHANGED <<memory, pc, ir, acc, halted, outputs, size, lastStored, fetchedFrom, outLog, loadedFrom, running, refs, pending, rendered>>

\* if (state.halted) return { state, lastAction: "CPU detenida" }
StepHalted ==
  /\ halted
  /\ lastAction' = "CPU detenida"
  /\ Counted
  /\ Kept
  /\ UNCHANGED <<memory, pc, ir, acc, phase, halted, outputs, size, lastStored, fetchedFrom, outLog, loadedFrom, running, refs, pending, rendered>>

\* mutant: the fetch also advances PC
FetchAdvancesPC ==
  /\ ~halted
  /\ phase \in {"Idle", "Execute"}
  /\ LET instr == MemGet(memory, pc) IN
     /\ ir' = IF instr.t = "undefined" THEN Ins("NOP") ELSE instr
     /\ fetchedFrom' = [pc |-> pc, length |-> memory.length, cell |-> instr]
  /\ phase' = "Fetch"
  /\ pc' = nextPC
  /\ lastAction' = "FETCH"
  /\ Counted
  /\ Kept
  /\ UNCHANGED <<memory, acc, halted, outputs, size, lastStored, outLog, loadedFrom, running, refs, pending, rendered>>

\* phase Idle or Execute: fetch
Fetch ==
  /\ ~halted
  /\ phase \in {"Idle", "Execute"}
  /\ LET instr == MemGet(memory, pc) IN
     /\ ir' = IF instr.t = "undefined" THEN Ins("NOP") ELSE instr
     /\ fetchedFrom' = [pc |-> pc, length |-> memory.length, cell |-> instr]
  /\ phase' = "Fetch"
  /\ lastAction' = "FETCH"
  /\ Counted
  /\ Kept
  /\ UNCHANGED <<memory, pc, acc, halted, outputs, size, lastStored, outLog, loadedFrom, running, refs, pending, rendered>>

\* mutant: decode falls through to phase Execute
DecodeSkipsPhase ==
  /\ ~halted
  /\ phase = "Fetch"
  /\ phase' = "Execute"
  /\ lastAction' = "DECODE"
  /\ Counted
  /\ Kept
  /\ UNCHANGED <<memory, pc, ir, acc, halted, outputs, size, lastStored, fetchedFrom, outLog, loadedFrom, running, refs, pending, rendered>>

\* mutant: decoding text that is no instruction halts the machine
DecodeHaltsOnInvalid ==
  /\ ~halted
  /\ phase = "Fetch"
  /\ phase' = "Decode"
  /\ halted' = (decoded.op = "INVALID")
  /\ lastAction' = "DECODE"
  /\ Counted
  /\ Kept
  /\ UNCHANGED <<memory, pc, ir, acc, outputs, size, lastStored, fetchedFrom, outLog, loadedFrom, running, refs, pending, rendered>>

\* phase Fetch: decode
Decode ==
  /\ ~halted
  /\ phase = "Fetch"
  /\ phase' = "Decode"
  /\ lastAction' = "DECODE"
  /\ Counted
  /\ Kept
  /\ UNCHANGED <<memory, pc, ir, acc, halted, outputs, size, lastStored, fetchedFrom, outLog, loadedFrom, running, refs, pending, rendered>>

Executing(op) == ~halted /\ phase = "Decode" /\ decoded.op = op

\* mutant: NOP leaves PC where it is
ExecNOPStays ==
  /\ Executing("NOP")
  /\ phase' = "Execute"
  /\ lastAction' = "EXEC: NOP"
  /\ Counted
  /\ Kept
  /\ UNCHANGED <<memory, pc, ir, acc, halted, outputs, size, lastStored, fetchedFrom, outLog, loadedFrom, running, refs, pending, rendered>>

ExecNOP ==
  /\ Executing("NOP")
  /\ phase' = "Execute" /\ pc' = nextPC
  /\ lastAction' = "EXEC: NOP"
  /\ Counted
  /\ Kept
  /\ UNCHANGED <<memory, ir, acc, halted, outputs, size, lastStored, fetchedFrom, outLog, loadedFrom, running, refs, pending, rendered>>

\* mutant: HLT advances PC like the other opcodes
ExecHLTAdvances ==
  /\ Executing("HLT")
  /\ phase' = "Execute" /\ halted' = TRUE /\ pc' = nextPC
  /\ lastAction' = "EXEC: HLT (CPU detenida)"
  /\ Counted
  /\ Kept
  /\ UNCHANGED <<memory, ir, acc, outputs, size, lastStored, fetchedFrom, outLog, loadedFrom, running, refs, pending, rendered>>

ExecHLT ==
  /\ Executing("HLT")
  /\ phase' = "Execute" /\ halted' = TRUE
  /\ lastAction' = "EXEC: HLT (CPU detenida)"
  /\ Counted
  /\ Kept
  /\ UNCHANGED <<memory, pc, ir, acc, outputs, size, lastStored, fetchedFrom, outLog, loadedFrom, running, refs, pending, rendered>>

ExecLOAD ==
  /\ Executing("LOAD")
  /\ InRange(arg)
  /\ phase' = "Execute" /\ acc' = arg /\ pc' = nextPC
  /\ lastAction' = "EXEC: LOAD"
  /\ Counted
  /\ Kept
  /\ UNCHANGED <<memory, ir, halted, outputs, size, lastStored, fetchedFrom, outLog, loadedFrom, running, refs, pending, rendered>>

\* mutant: a read outside the memory halts the machine
ExecLOADIHaltsOutside ==
  /\ Executing("LOADI")
  /\ LET v == parseData(MemGet(memory, arg)) IN
     /\ InRange(v)
     /\ acc' = v
  /\ halted' = (arg < 0 \/ arg > memory.length - 1)
  /\ phase' = "Execute" /\ pc' = nextPC
  /\ lastAction' = "EXEC: LOADI"
  /\ Counted
  /\ Kept
  /\ UNCHANGED <<memory, ir, outputs, size, lastStored, fetchedFrom, outLog, loadedFrom, running, refs, pending, rendered>>

ExecLOADI ==
  /\ Executing("LOADI")
  /\ LET v == parseData(MemGet(memory, arg)) IN
     /\ InRange(v)
     /\ acc' = v
  /\ phase' = "Execute" /\ pc' = nextPC
  /\ lastAction' = "EXEC: LOADI"
  /\ Counted
  /\ Kept
  /\ UNCHANGED <<memory, ir, halted, outputs, size, lastStored, fetchedFrom, outLog, loadedFrom, running, refs, pending, rendered>>

\* mutant: a cell that holds an instruction is not written
ExecSTOREKeepsInstructions ==
  /\ Executing("STORE")
  /\ memory' =
       IF MemGet(memory, arg).t = "string" /\ MemGet(memory, arg).s # <<>>
       THEN MemSlice(memory)
       ELSE MemSet(MemSlice(memory), arg, Num(acc))
  /\ phase' = "Execute" /\ pc' = nextPC
  /\ lastAction' = "EXEC: STORE"
  /\ lastStored' =
       (arg :> acc) @@
       [b \in {c \in DOMAIN lastStored :
                 clamp(c, 0, size - 1) # clamp(arg, 0, size - 1)} |-> lastStored[b]]
  /\ Counted
  /\ Copied
  /\ UNCHANGED <<ir, acc, halted, outputs, size, fetchedFrom, outLog, loadedFrom, running, refs, pending, rendered>>

ExecSTORE ==
  /\ Executing("STORE")
  /\ memory' = MemSet(MemSlice(memory), arg, Num(acc))
  /\ phase' = "Execute" /\ pc' = nextPC
  /\ lastAction' = "EXEC: STORE"
  /\ lastStored' =
       (arg :> acc) @@
       [b \in {c \in DOMAIN lastStored :
                 clamp(c, 0, size - 1) # clamp(arg, 0, size - 1)} |-> lastStored[b]]
  /\ Counted
  /\ Copied
  /\ UNCHANGED <<ir, acc, halted, outputs, size, fetchedFrom, outLog, loadedFrom, running, refs, pending, rendered>>

ExecADD ==
  /\ Executing("ADD")
  /\ LET v == acc + arg IN
     /\ InRange(v)
     /\ acc' = v
  /\ phase' = "Execute" /\ pc' = nextPC
  /\ lastAction' = "EXEC: ADD"
  /\ Counted
  /\ Kept
  /\ UNCHANGED <<memory, ir, halted, outputs, size, lastStored, fetchedFrom, outLog, loadedFrom, running, refs, pending, rendered>>

ExecADDM ==
  /\ Executing("ADDM")
  /\ LET d == parseData(MemGet(memory, arg))
         v == acc + d IN
     /\ InRange(v)
     /\ acc' = v
  /\ phase' = "Execute" /\ pc' = nextPC
  /\ lastAction' = "EXEC: ADDM"
  /\ Counted
  /\ Kept
  /\ UNCHANGED <<memory, ir, halted, outputs, size, lastStored, fetchedFrom, outLog, loadedFrom, running, refs, pending, rendered>>

ExecSUB ==
  /\ Executing("SUB")
  /\ LET v == acc - arg IN
     /\ InRange(v)
     /\ acc' = v
  /\ phase' = "Execute" /\ pc' = nextPC
  /\ lastAction' = "EXEC: SUB"
  /\ Counted
  /\ Kept
  /\ UNCHANGED <<memory, ir, halted, outputs, size, lastStored, fetchedFrom, outLog, loadedFrom, running, refs, pending, rendered>>

ExecSUBM ==
  /\ Executing("SUBM")
  /\ LET d == parseData(MemGet(memory, arg))
         v == acc - d IN
     /\ InRange(v)
     /\ acc' = v
  /\ phase' = "Execute" /\ pc' = nextPC
  /\ lastAction' = "EXEC: SUBM"
  /\ Counted
  /\ Kept
  /\ UNCHANGED <<memory, ir, halted, outputs, size, lastStored, fetchedFrom, outLog, loadedFrom, running, refs, pending, rendered>>

ExecJMP ==
  /\ Executing("JMP")
  /\ phase' = "Execute" /\ pc' = jumpPC(arg)
  /\ lastAction' = "EXEC: JMP"
  /\ Counted
  /\ Kept
  /\ UNCHANGED <<memory, ir, acc, halted, outputs, size, lastStored, fetchedFrom, outLog, loadedFrom, running, refs, pending, rendered>>

\* mutant: JZ tests ACC # 0
ExecJZInverted ==
  /\ Executing("JZ")
  /\ phase' = "Execute"
  /\ IF acc # 0
     THEN pc' = jumpPC(arg) /\ lastAction' = "EXEC: JZ (ACC=0)"
     ELSE pc' = nextPC /\ lastAction' = "EXEC: JZ (no salta)"
  /\ Counted
  /\ Kept
  /\ UNCHANGED <<memory, ir, acc, halted, outputs, size, lastStored, fetchedFrom, outLog, loadedFrom, running, refs, pending, rendered>>

ExecJZ ==
  /\ Executing("JZ")
  /\ phase' = "Execute"
  /\ IF acc = 0
     THEN pc' = jumpPC(arg) /\ lastAction' = "EXEC: JZ (ACC=0)"
     ELSE pc' = nextPC /\ lastAction' = "EXEC: JZ (no salta)"
  /\ Counted
  /\ Kept
  /\ UNCHANGED <<memory, ir, acc, halted, outputs, size, lastStored, fetchedFrom, outLog, loadedFrom, running, refs, pending, rendered>>

ExecJNZ ==
  /\ Executing("JNZ")
  /\ phase' = "Execute"
  /\ IF acc # 0
     THEN pc' = jumpPC(arg) /\ lastAction' = "EXEC: JNZ (ACC!=0)"
     ELSE pc' = nextPC /\ lastAction' = "EXEC: JNZ (no salta)"
  /\ Counted
  /\ Kept
  /\ UNCHANGED <<memory, ir, acc, halted, outputs, size, lastStored, fetchedFrom, outLog, loadedFrom, running, refs, pending, rendered>>

\* mutant: the list is never cut
lastOutputsUncut(o) == o

\* mutant: the newest entry is dropped instead of the oldest
lastOutputsKeepsFirst(o) == IF Len(o) > OutCap THEN SubSeq(o, 1, OutCap) ELSE o

\* [...state.outputs, acc].slice(-50)
lastOutputs(o) ==
  IF Len(o) > OutCap THEN SubSeq(o, Len(o) - OutCap + 1, Len(o)) ELSE o

\* mutant: OUT clears ACC after sending it
ExecOUTClearsACC ==
  /\ Executing("OUT")
  /\ phase' = "Execute" /\ pc' = nextPC
  /\ outputs' = lastOutputs(Append(outputs, acc))
  /\ acc' = 0
  /\ Len(outLog) < MaxOuts
  /\ outLog' = Append(outLog, acc)
  /\ lastAction' = "EXEC: OUT"
  /\ Counted
  /\ Kept
  /\ UNCHANGED <<memory, ir, halted, size, lastStored, fetchedFrom, loadedFrom, running, refs, pending, rendered>>

ExecOUT ==
  /\ Executing("OUT")
  /\ Len(outLog) < MaxOuts
  /\ outputs' = lastOutputs(Append(outputs, acc))
  /\ outLog' = Append(outLog, acc)
  /\ phase' = "Execute" /\ pc' = nextPC
  /\ lastAction' = "EXEC: OUT"
  /\ Counted
  /\ Kept
  /\ UNCHANGED <<memory, ir, acc, halted, size, lastStored, fetchedFrom, loadedFrom, running, refs, pending, rendered>>

\* mutant: a number in IR leaves PC where it is
ExecDATAStays ==
  /\ Executing("DATA")
  /\ phase' = "Execute"
  /\ lastAction' = "EXEC: DATA (sin efecto)"
  /\ Counted
  /\ Kept
  /\ UNCHANGED <<memory, pc, ir, acc, halted, outputs, size, lastStored, fetchedFrom, outLog, loadedFrom, running, refs, pending, rendered>>

ExecDATA ==
  /\ Executing("DATA")
  /\ phase' = "Execute" /\ pc' = nextPC
  /\ lastAction' = "EXEC: DATA (sin efecto)"
  /\ Counted
  /\ Kept
  /\ UNCHANGED <<memory, ir, acc, halted, outputs, size, lastStored, fetchedFrom, outLog, loadedFrom, running, refs, pending, rendered>>

\* mutant: text that is no instruction is skipped like a NOP
ExecINVALIDSkips ==
  /\ Executing("INVALID")
  /\ phase' = "Execute" /\ pc' = nextPC
  /\ lastAction' = "ERROR: instruccion invalida"
  /\ Counted
  /\ Kept
  /\ UNCHANGED <<memory, ir, acc, halted, outputs, size, lastStored, fetchedFrom, outLog, loadedFrom, running, refs, pending, rendered>>

ExecINVALID ==
  /\ Executing("INVALID")
  /\ phase' = "Execute" /\ halted' = TRUE
  /\ lastAction' = "ERROR: instruccion invalida"
  /\ Counted
  /\ Kept
  /\ UNCHANGED <<memory, pc, ir, acc, outputs, size, lastStored, fetchedFrom, outLog, loadedFrom, running, refs, pending, rendered>>

\* the Execute branch of step: switch (op).  Its default case and the final
\* "(sin cambio)" return of step are unreachable: parseInstr returns only the
\* opcodes below and phase only takes its four values.
Execute ==
  \/ ExecNOP \/ ExecHLT \/ ExecLOAD \/ ExecLOADI \/ ExecSTORE
  \/ ExecADD \/ ExecADDM \/ ExecSUB \/ ExecSUBM
  \/ ExecJMP \/ ExecJZ \/ ExecJNZ \/ ExecOUT \/ ExecDATA \/ ExecINVALID

\* step(state)
Next == StepHalted \/ Fetch \/ Decode \/ Execute

Spec == Init /\ [][Next]_vars

(* ------------------------------ assembler ------------------------------ *)

\* const defaultMemSize = 16; memSize never changes (useState without a setter)
defaultMemSize == 16

\* .split("\n")
RECURSIVE SplitLines(_, _)
SplitLines(s, cur) ==
  IF s = <<>> THEN <<cur>>
  ELSE IF Head(s) = "\n"
       THEN <<cur>> \o SplitLines(Tail(s), <<>>)
       ELSE SplitLines(Tail(s), Append(cur, Head(s)))

\* l.split("//")[0]: the text before the first "//"
RECURSIVE BeforeComment(_)
BeforeComment(l) ==
  IF l = <<>> THEN <<>>
  ELSE IF Len(l) >= 2 /\ l[1] = "/" /\ l[2] = "/" THEN <<>>
  ELSE <<Head(l)>> \o BeforeComment(Tail(l))

NonEmpty(l) == Len(l) > 0

\* const lines = programText.split("\n").map(...).filter((l) => l.length > 0)
lines(text) ==
  LET raw == SplitLines(text, <<>>) IN
  SelectSeq([i \in 1..Len(raw) |-> Trim(BeforeComment(raw[i]))], NonEmpty)

\* X_ADDR = dataBase++, Y_ADDR = dataBase++, Z_ADDR = dataBase++, with
\* dataBase = lines.length = n
X_ADDR(n) == n
Y_ADDR(n) == n + 1
\* mutant: Z shares the slot of Y
Z_ADDRSharesY(n) == n + 1
Z_ADDR(n) == n + 2

\* mutant: the program may not fill the memory up to its last cell
fitsStrict(n) == n + 3 < defaultMemSize
\* the negation of: if (dataBase > memSize)
fits(n) == ~(n + 3 > defaultMemSize)

\* mutant: a binding that is not yet a number is written as 0
NumberOrZeroOfNumbers(x) == IF x.t = "number" THEN x.n ELSE 0
\* Number(x) || 0 of a binding: a number, the text of an input field, undefined
NumberOrZero(x) ==
  IF x.t = "number" THEN x.n
  ELSE IF x.t = "string" THEN (IF Number(x.s).fin THEN Number(x.s).v ELSE 0)
  ELSE 0

Is(name, letter) == toUpperCase(name) = <<letter>>

\* mutant: the names X, Y, Z are not recognised, only literals are
resolveVarToValueLiteralsOnly(name, v) ==
  IF Number(name).fin THEN Number(name).v ELSE 0
\* resolveVarToValue(name), v being the bindings vars
resolveVarToValue(name, v) ==
  IF Is(name, "X") THEN NumberOrZero(v.X)
  ELSE IF Is(name, "Y") THEN NumberOrZero(v.Y)
  ELSE IF Is(name, "Z") THEN NumberOrZero(v.Z)
  ELSE IF Number(name).fin THEN Number(name).v ELSE 0

\* resolveVarToAddr(name), n being lines.length
resolveVarToAddr(name, n) ==
  IF Is(name, "X") THEN X_ADDR(n)
  ELSE IF Is(name, "Y") THEN Y_ADDR(n)
  ELSE IF Is(name, "Z") THEN Z_ADDR(n)
  ELSE IF Number(name).fin THEN clamp(Number(name).v, 0, defaultMemSize - 1) ELSE 0

\* mutant: the jumps are missing from the set
addrOpsWithoutJumps(op) ==
  \E k \in {"LOADI", "ADDM", "SUBM", "STORE"} : Mnemonic[k] = op
\* addrOps.has(op)
addrOps(op) == \E k \in AddrOps : Mnemonic[k] = op

\* the body of the assembly loop: the cell written for one line
assembleLine(line, n, v) ==
  LET parts == SplitBlank(CollapseSpaces(line), <<>>)
      op == toUpperCase(parts[1]) IN
  IF Len(parts) < 2 THEN Str(op)
  ELSE LET rawArg == parts[2]
           a == IF addrOps(op) THEN resolveVarToAddr(rawArg, n)
                               ELSE resolveVarToValue(rawArg, v) IN
       Str(op \o <<" ">> \o NumToStr(a))

\* Array.from({ length: memSize }, () => "")
newMem == ArrayOf([i \in 1..defaultMemSize |-> Empty])

\* mem of compileAndLoad once the loop and the three writes of X, Y, Z are done
mem(text, v) ==
  LET ls == lines(text)
      n == Len(ls)
      m0 == newMem
      m1 == [m0 EXCEPT !.el =
               [k \in DOMAIN m0.el |-> IF k < n THEN assembleLine(ls[k + 1], n, v)
                                       ELSE m0.el[k]]]
      m2 == MemSet(m1, X_ADDR(n), Num(NumberOrZero(v.X)))
      m3 == MemSet(m2, Y_ADDR(n), Num(NumberOrZero(v.Y)))
  IN MemSet(m3, Z_ADDR(n), Num(NumberOrZero(v.Z)))

(* ------------------------- sources and bindings ------------------------ *)

RECURSIVE Join(_)
Join(ls) ==
  IF Len(ls) = 1 THEN ls[1] ELSE ls[1] \o <<"\n">> \o Join(Tail(ls))

W(k, operand) == Mnemonic[k] \o <<" ">> \o operand

\* the program applyQuickTemplate("ADD") inserts, without its comment line
SrcSum ==
  Join(<<W("LOAD", <<"X">>), W("ADD", <<"Y">>), W("STORE", <<"Z">>),
         Mnemonic["OUT"], Mnemonic["HLT"]>>)

\* the same program in lower case, with comments, blank lines and tabs
SrcSumLower ==
  Join(<<<<"/", "/", " ", "X", "+", "Y">>, <<>>,
         <<" ", "l", "o", "a", "d", " ", " ", "x", " ", "/", "/", "v">>,
         <<"\t", "A", "d", "d", "\t", "y">>, <<" ", "\t">>,
         <<"s", "t", "o", "r", "e", " ", "z">>, <<"o", "u", "t">>,
         <<"h", "l", "t", "/", "/">>>>)

\* every opcode with an operand: names and literals, addresses past the end
SrcOps ==
  Join(<<W("LOAD", <<"3">>), W("STORE", <<"Z">>), W("LOADI", <<"X">>),
         W("ADDM", <<"Y">>), W("SUBM", <<"2", "0">>), W("SUB", <<"4">>),
         W("JZ", <<"8">>), <<"F", "O", "O", " ", "Y">>, W("ADD", <<"1">>),
         W("JNZ", <<"1", "0">>), W("JMP", <<"7">>)>>)

\* a name as a value, a negative address, Z as a value, a jump past the end
SrcEdges ==
  Join(<<W("LOAD", <<"y">>), W("STORE", <<"-", "1">>), W("ADD", <<"z">>),
         Mnemonic["OUT"], W("JMP", <<"9", "9">>)>>)

\* the program applyQuickTemplate("MUL") inserts, its MUL in lower case
SrcMul ==
  Join(<<<<"/", "/", " ", "X", " ", "*", " ", "Y", " ", "=", " ", "Z">>,
         W("LOAD", <<"X">>), <<"m", "u", "l", " ", "Y">>, W("STORE", <<"Z">>),
         Mnemonic["OUT"], Mnemonic["HLT"]>>)

Nops(k) == Join([i \in 1..k |-> Mnemonic["NOP"]])

Sources ==
  { SrcSum, SrcSumLower, SrcOps, SrcEdges, SrcMul, Nops(1),
    Nops(defaultMemSize - 3), Nops(defaultMemSize - 2) }

\* useState({ X: 2, Y: 2 }); an input field stores its text; Z is never set
VarsInitial == [X |-> Num(2), Y |-> Num(2), Z |-> Undef]
VarsTyped == [X |-> Str(<<"3">>), Y |-> Str(<<>>), Z |-> Undef]
VarsNegative == [X |-> Str(<<"-", "1">>), Y |-> Num(2), Z |-> Undef]
VarSets == { VarsInitial, VarsTyped, VarsNegative }

(* ----------------------- assemble, load and reset ---------------------- *)

CapacityMsg == "El programa y datos no caben en la memoria actual."
CompiledMsg == "Programa compilado y cargado"

\* mutant: a halted machine stays halted over a reset
resetCPUKeepsHalted ==
  /\ halted' = halted
  /\ phase' = "Idle"
  /\ pc' = 0
  /\ ir' = Ins("NOP")
  /\ acc' = 0
  /\ outputs' = <<>>

\* resetCPU(): registers, phase and outputs; the memory is not touched
resetCPU ==
  /\ halted' = FALSE
  /\ phase' = "Idle"
  /\ pc' = 0
  /\ ir' = Ins("NOP")
  /\ acc' = 0
  /\ outputs' = <<>>

\* what the call found: a halted machine, printed outputs, a non-empty cell
\* past the n program cells and the three slots
Found(n) ==
  [halted |-> halted, printed |-> outputs # <<>>,
   dirty |-> \E k \in (n + 3)..(memory.length - 1) : MemGet(memory, k) # Empty]

\* the calls of compileAndLoad: a text of the editor, bindings of X, Y, Z,
\* and what the call computes from them (lines.length and mem)
Calls ==
  { [text |-> t, vars |-> v, n |-> Len(lines(t)), mem |-> mem(t, v)] :
      t \in Sources, v \in VarSets }

\* compileAndLoad()
CompileAndLoad ==
  \E c \in Calls :
    /\ loadedFrom' = [text |-> c.text, vars |-> c.vars, over |-> Found(c.n)]
    /\ caller' = NoCaller
    /\ UNCHANGED <<running, refs, pending, rendered>>
    /\ IF ~fits(c.n)
       THEN /\ lastAction' = CapacityMsg
            /\ UNCHANGED <<memory, pc, ir, acc, phase, halted, outputs, size,
                           lastStored, fetchedFrom, outLog, steps>>
       ELSE /\ memory' = c.mem
            /\ resetCPU
            /\ lastAction' = CompiledMsg
            /\ size' = defaultMemSize
            /\ lastStored' = <<>>
            /\ fetchedFrom' = [pc |-> 0, length |-> defaultMemSize, cell |-> Undef]
            /\ outLog' = <<>>
            /\ steps' = 0

\* the component as mounted: 16 empty cells, registers as after a reset
InitAsm ==
  /\ memory = newMem
  /\ size = defaultMemSize
  /\ pc = 0
  /\ ir = Ins("NOP")
  /\ acc = 0
  /\ phase = "Idle"
  /\ halted = FALSE
  /\ outputs = <<>>
  /\ lastAction = ""
  /\ lastStored = <<>>
  /\ fetchedFrom = [pc |-> 0, length |-> defaultMemSize, cell |-> Undef]
  /\ outLog = <<>>
  /\ steps = 0
  /\ loadedFrom = NotLoaded
  /\ Unmounted

NextAsm == Next \/ CompileAndLoad

\* the machine driven by step, with the editor's program assembled into it
SpecAsm == InitAsm /\ [][NextAsm]_vars

(* ------------------- the component's own stepping ---------------------- *)
(* VonNeumannSimulator.jsx keeps the machine in React state and mirrors it
   in refs.  A handler reads the refs and sets state; the refs follow the
   state in effects that run after the next render, except where the handler
   writes the ref itself.  The state variables hold the state with every
   queued update applied, in the order of the calls. *)

\* const [memSize] = useState(defaultMemSize)
memSize == defaultMemSize

\* the component's parseInstr: the one of cpu.js with MUL and DIV among the
\* mnemonics that take an operand
MnemonicJsx ==
  [MUL |-> <<"M","U","L">>, DIV |-> <<"D","I","V">>] @@ Mnemonic

ArgOpsJsx == ImmOps \cup AddrOps \cup {"MUL", "DIV"}

parseTextJsx(txt) ==
  IF txt = <<>> THEN [op |-> "NOP", args |-> <<>>]
  ELSE
    LET parts == SplitBlank(CollapseSpaces(txt), <<>>)
        op == toUpperCase(parts[1])
        hasArg == Len(parts) >= 2
        num == IF hasArg THEN Number(parts[2]) ELSE [fin |-> FALSE, v |-> 0]
        operand == IF num.fin THEN num.v ELSE 0
    IN
    IF \E k \in NoArgOps : MnemonicJsx[k] = op
    THEN [op |-> CHOOSE k \in NoArgOps : MnemonicJsx[k] = op, args |-> <<>>]
    ELSE IF \E k \in ArgOpsJsx : MnemonicJsx[k] = op
    THEN [op |-> CHOOSE k \in ArgOpsJsx : MnemonicJsx[k] = op, args |-> <<operand>>]
    ELSE [op |-> "INVALID", args |-> <<txt>>]

parseInstrJsx(raw) ==
  IF raw.t = "undefined" THEN [op |-> "NOP", args |-> <<>>]
  ELSE IF raw.t = "number" THEN [op |-> "DATA", args |-> <<raw.n>>]
  ELSE parseTextJsx(Trim(raw.s))

Abs(n) == IF n < 0 THEN 0 - n ELSE n

\* mutant: Math.floor(a / b)
floorDiv(a, b) ==
  IF (a < 0) = (b < 0) THEN Abs(a) \div Abs(b)
  ELSE 0 - ((Abs(a) + Abs(b) - 1) \div Abs(b))

\* Math.trunc(a / b) for integers a and b # 0: the quotient rounded toward 0
truncDiv(a, b) ==
  IF (a < 0) = (b < 0) THEN Abs(a) \div Abs(b) ELSE 0 - (Abs(a) \div Abs(b))

\* the dependencies of the effects that copy state into the refs
Deps(c) ==
  [running |-> c.running, halted |-> c.halted, phase |-> c.phase, ir |-> c.ir,
   pc |-> c.pc, acc |-> c.acc, mem |-> c.memory]

\* the component: its state and its refs
Live ==
  [memory |-> memory, pc |-> pc, ir |-> ir, acc |-> acc, phase |-> phase,
   halted |-> halted, outputs |-> outputs, lastAction |-> lastAction,
   running |-> running, refs |-> refs]

doFetch(c) ==
  LET instr == MemGet(c.refs.mem, c.refs.pc)
      newIR == IF instr.t = "undefined" THEN Ins("NOP") ELSE instr
  IN [c EXCEPT !.phase = "Fetch", !.ir = newIR, !.refs.ir = newIR,
               !.lastAction = "FETCH"]

doDecode(c) == [c EXCEPT !.phase = "Decode", !.lastAction = "DECODE"]

\* writeMem(addr, value): the state update and the write to memRef
writeMem(c, addr, value) ==
  LET a == clamp(addr, 0, memSize - 1) IN
  [c EXCEPT !.memory = MemSet(MemSlice(@), a, value),
            !.refs.mem = MemSet(MemSlice(@), a, value)]

\* next() of doExecute
next(c) ==
  LET newPC == clamp(c.refs.pc + 1, 0, memSize - 1) IN
  [c EXCEPT !.pc = newPC, !.refs.pc = newPC]

\* setPC(clamp(arg, 0, memSize - 1)); pcRef.current = clamp(arg, 0, memSize - 1)
jump(c, a) ==
  LET newPC == clamp(a, 0, memSize - 1) IN
  [c EXCEPT !.pc = newPC, !.refs.pc = newPC]

\* setACC(v); accRef.current = v
setLiveACC(c, v) == [c EXCEPT !.acc = v, !.refs.acc = v]

\* setACC(v) alone, as MUL and DIV call it
setACC(c, v) == [c EXCEPT !.acc = v]

\* setHalted(true); haltedRef.current = true; setRunning(false);
\* runningRef.current = false; clearTimeout(timerRef.current)
stop(c) ==
  [c EXCEPT !.halted = TRUE, !.refs.halted = TRUE,
            !.running = FALSE, !.refs.running = FALSE,
            !.refs.timer = FALSE]

said(c, text) == [c EXCEPT !.lastAction = text]

\* case "MUL" of doExecute
execMUL(e, a) == next(said(setACC(e, e.refs.acc * a), "EXEC: MUL"))

\* mutant: a zero divisor stops the machine
execDIVHaltsOnZero(e, a) ==
  IF a = 0 THEN stop(said(e, "ERROR: division por cero"))
  ELSE next(said(setACC(e, truncDiv(e.refs.acc, a)), "EXEC: DIV"))

\* case "DIV" of doExecute
execDIV(e, a) ==
  IF a = 0 THEN next(said(setACC(e, 0), "EXEC: DIV (/0)"))
  ELSE next(said(setACC(e, truncDiv(e.refs.acc, a)), "EXEC: DIV"))

doExecute(c) ==
  LET e == [c EXCEPT !.phase = "Execute"]
      d == parseInstrJsx(c.refs.ir)
      op == d.op
      a == d.args[1]
      live == c.refs.acc
  IN
  CASE op = "NOP" -> next(said(e, "EXEC: NOP"))
    [] op = "HLT" -> stop(said(e, "EXEC: HLT (CPU detenida)"))
    [] op = "LOAD" -> next(said(setLiveACC(e, a), "EXEC: LOAD"))
    [] op = "LOADI" ->
         next(said(setLiveACC(e, parseData(MemGet(c.refs.mem, a))), "EXEC: LOADI"))
    [] op = "MUL" -> execMUL(e, a)
    [] op = "DIV" -> execDIV(e, a)
    [] op = "STORE" -> next(said(writeMem(e, a, Num(live)), "EXEC: STORE"))
    [] op = "ADD" -> next(said(setLiveACC(e, live + a), "EXEC: ADD"))
    [] op = "ADDM" ->
         next(said(setLiveACC(e, live + parseData(MemGet(c.refs.mem, a))), "EXEC: ADDM"))
    [] op = "SUB" -> next(said(setLiveACC(e, live - a), "EXEC: SUB"))
    [] op = "SUBM" ->
         next(said(setLiveACC(e, live - parseData(MemGet(c.refs.mem, a))), "EXEC: SUBM"))
    [] op = "JMP" -> said(jump(e, a), "EXEC: JMP")
    [] op = "JZ" ->
         IF live = 0 THEN said(jump(e, a), "EXEC: JZ (salta)")
         ELSE next(said(e, "EXEC: JZ (no salta)"))
    [] op = "JNZ" ->
         IF live # 0 THEN said(jump(e, a), "EXEC: JNZ (salta)")
         ELSE next(said(e, "EXEC: JNZ (no salta)"))
    [] op = "OUT" ->
         next([said(e, "EXEC: OUT") EXCEPT !.outputs = lastOutputs(Append(@, live))])
    [] op = "DATA" -> next(said(e, "EXEC: DATA (sin efecto)"))
    [] op = "INVALID" -> stop(said(e, "ERROR: instruccion invalida"))
    [] OTHER -> stop(said(e, "ERROR: op desconocida"))

stepOnce(c) ==
  IF c.refs.halted THEN c
  ELSE CASE c.refs.phase \in {"Idle", "Execute"} -> doFetch(c)
         [] c.refs.phase = "Fetch" -> doDecode(c)
         [] c.refs.phase = "Decode" -> doExecute(c)
         [] OTHER -> c

\* mutant: a run toggle that does not look at haltedRef
runToggleOfHalted(c) == [c EXCEPT !.running = ~@]

\* setRunning((r) => !r) unless haltedRef.current
runToggle(c) == IF c.refs.halted THEN c ELSE [c EXCEPT !.running = ~@]

\* mutant: a reset that leaves the run mode on
resetLiveKeepsRunning(c) ==
  [c EXCEPT !.refs.timer = FALSE,
            !.halted = FALSE, !.refs.halted = FALSE,
            !.phase = "Idle", !.refs.phase = "Idle",
            !.pc = 0, !.refs.pc = 0,
            !.ir = Ins("NOP"), !.refs.ir = Ins("NOP"),
            !.acc = 0, !.refs.acc = 0,
            !.lastAction = "", !.outputs = <<>>]

\* resetCPU() of the component: the state and the refs
resetLive(c) ==
  [c EXCEPT !.refs.timer = FALSE,
            !.running = FALSE, !.refs.running = FALSE,
            !.halted = FALSE, !.refs.halted = FALSE,
            !.phase = "Idle", !.refs.phase = "Idle",
            !.pc = 0, !.refs.pc = 0,
            !.ir = Ins("NOP"), !.refs.ir = Ins("NOP"),
            !.acc = 0, !.refs.acc = 0,
            !.lastAction = "", !.outputs = <<>>]

\* the effects of one render: useEffect(() => { xRef.current = x; }, [x])
\* runs when x differs from its value at the render before.  (A memory
\* array is compared by identity; every array set as state has the content
\* written to memRef by the same handler.)  The effect of the run loop,
\* with the dependencies [running, halted]: its cleanup clears the timeout,
\* and it sets one when running && !halted.
effects(c, last) ==
  LET now == Deps(c)
      again == now.running # last.running \/ now.halted # last.halted
  IN
  [f \in DOMAIN c.refs |->
     IF f = "timer"
     THEN IF again THEN now.running /\ ~now.halted ELSE c.refs.timer
     ELSE IF now[f] # last[f] THEN now[f] ELSE c.refs[f]]

\* the component takes the state and the refs of c
Becomes(c) ==
  /\ memory' = c.memory /\ pc' = c.pc /\ ir' = c.ir /\ acc' = c.acc
  /\ phase' = c.phase /\ halted' = c.halted /\ outputs' = c.outputs
  /\ lastAction' = c.lastAction /\ running' = c.running /\ refs' = c.refs
  /\ InRange(c.acc)

\* the render after a handler has run, and its effects
Commit(c) ==
  /\ Becomes([c EXCEPT !.refs = effects(c, rendered)])
  /\ rendered' = Deps(c)
  /\ pending' = FALSE

History == <<size, lastStored, fetchedFrom, outLog, loadedFrom, caller>>

\* mutant: a tick that sets no further timeout
TickOnce ==
  /\ refs.timer
  /\ IF refs.running /\ ~refs.halted
     THEN /\ ~pending
          /\ Becomes([stepOnce(Live) EXCEPT !.refs.timer = FALSE])
          /\ pending' = TRUE
          /\ Counted
     ELSE /\ Becomes([Live EXCEPT !.refs.timer = FALSE])
          /\ UNCHANGED <<pending, steps>>
  /\ UNCHANGED <<rendered, History>>

\* the timeout of the run loop fires: tick() returns when runningRef is
\* off or haltedRef is on, else it calls stepOnce and sets the next timeout.
\* The render and its effects come later; the ticks are speedMs >= 150 ms
\* apart, so the render of one stepping tick is over when the next fires.
\* The timeout set by the tick that halted the machine is cleared by the
\* next render; whether it fires before that is left open.
Tick ==
  /\ refs.timer
  /\ IF refs.running /\ ~refs.halted
     THEN /\ ~pending
          /\ Becomes([stepOnce(Live) EXCEPT !.refs.timer = TRUE])
          /\ pending' = TRUE
          /\ Counted
     ELSE /\ Becomes([Live EXCEPT !.refs.timer = FALSE])
          /\ UNCHANGED <<pending, steps>>
  /\ UNCHANGED <<rendered, History>>

\* the render that follows a tick
Render ==
  /\ pending
  /\ Commit(Live)
  /\ UNCHANGED <<steps, History>>

\* a click on Paso (disabled={halted}): stepOnce, then the render
Paso ==
  /\ ~rendered.halted
  /\ Commit(stepOnce(Live))
  /\ Counted
  /\ UNCHANGED History

\* a click on Ejecutar / Pausar (disabled={halted}): runToggle, then the render
RunToggle ==
  /\ ~rendered.halted
  /\ Commit(runToggle(Live))
  /\ UNCHANGED <<steps, History>>

\* a click on Reset: resetCPU, then the render
Reset ==
  /\ Commit(resetLive(Live))
  /\ steps' = 0
  /\ UNCHANGED History

\* LOAD a, then MUL b or DIV b, then HLT, in a memory of 16 cells
Operands == {0 - 7, 0 - 3, 0, 3, 7}
Factors == {0 - 2, 0, 2}
Arithmetic ==
  { Image(<<InsArg("LOAD", a), Str(MnemonicJsx[k] \o <<" ">> \o NumToStr(b)),
            Ins("HLT")>>, defaultMemSize) :
      a \in Operands, k \in {"MUL", "DIV"}, b \in Factors }

\* programs of the other opcodes, one with text that is no instruction
Others ==
  { Image(<<InsArg("LOAD", 2), InsArg("ADD", 2), InsArg("STORE", 20),
            Ins("OUT"), InsArg("LOADI", 20), InsArg("SUBM", 15),
            InsArg("JZ", 14), Ins("HLT")>>, defaultMemSize),
    Image(<<InsArg("SUB", 1), InsArg("JNZ", 3), Ins("HLT"), InsArg("ADDM", 0),
            Num(1), InsArg("JMP", 7), Ins("HLT"), Str(<<"F", "O", "O">>)>>,
          defaultMemSize) }

\* the component with a program in its memory, as after a reset
InitUI ==
  /\ memory \in Arithmetic \cup Others
  /\ size = defaultMemSize
  /\ pc = 0
  /\ ir = Ins("NOP")
  /\ acc = 0
  /\ phase = "Idle"
  /\ halted = FALSE
  /\ outputs = <<>>
  /\ lastAction = ""
  /\ lastStored = <<>>
  /\ fetchedFrom = [pc |-> 0, length |-> defaultMemSize, cell |-> Undef]
  /\ outLog = <<>>
  /\ steps = 0
  /\ loadedFrom = NotLoaded
  /\ caller = NoCaller
  /\ running = FALSE
  /\ refs = [running |-> FALSE, halted |-> FALSE, phase |-> "Idle",
             ir |-> Ins("NOP"), pc |-> 0, acc |-> 0, mem |-> memory,
             timer |-> FALSE]
  /\ rendered = Deps(Live)
  /\ pending = FALSE

NextUI == Tick \/ Render \/ Paso \/ RunToggle \/ Reset

\* the component driven by its timer and its buttons
SpecUI == InitUI /\ [][NextUI]_vars

\* a click on Paso while the run mode is off
PasoPaused == ~running /\ Paso

NextRun == Tick \/ Render \/ PasoPaused \/ RunToggle \/ Reset

\* the programs of the run loop: those whose ACC stays under the cap of the
\* model
RunPrograms ==
  Others \cup
  { Image(<<InsArg("LOAD", t[1]),
            Str(MnemonicJsx[t[2]] \o <<" ">> \o NumToStr(t[3])),
            Ins("HLT")>>, defaultMemSize) :
      t \in { u \in Operands \X {"MUL", "DIV"} \X Factors :
                InRange(u[1] * u[3]) } }

InitRun == InitUI /\ memory \in RunPrograms

\* the tick that calls stepOnce, by what enables it and by the render it
\* leaves pending (no other step does)
TickStepped ==
  /\ ~pending /\ refs.timer /\ refs.running /\ ~refs.halted
  /\ pending' = TRUE

\* the run loop: a timeout that is set and not cleared fires (setTimeout),
\* a state update is followed by its render; the user switches the run
\* mode, resets, and steps by hand while the run mode is off
SpecRun ==
  InitRun /\ [][NextRun]_vars /\ WF_pending(TickStepped) /\ WF_vars(Render)

(* ------------------------ the decoder's inputs ------------------------- *)

\* the characters of the generated cell texts
Alphabet == {" ", "j", "Z", "1", "x"}

\* every text of at most k characters over Alphabet
Texts(k) == UNION { [1..m -> Alphabet] : m \in 0..k }

\* every mnemonic without an operand, and with the operands -1, 0, 1
Instructions ==
  { Ins(k) : k \in DOMAIN Mnemonic } \cup
  { InsArg(k, n) : k \in DOMAIN Mnemonic, n \in {0 - 1, 0, 1} }

\* a cell: a generated text, an instruction, text that is none, a number
DecodeInputs ==
  { Str(t) : t \in Texts(MaxLen) } \cup Instructions \cup
  { Str(<<"\t">>), Str(<<"F", "O", "O", " ", "1">>), Str(<<"4", "2">>),
    Str(<<"o", "u", "t", "\t", "\t", "x">>), Num(0 - 3), Num(0), Num(7),
    Str(<<"j", "Z", " ", "x">>), Str(<<"S", "t", "o", "r", "e", " ", "1", " ", "2">>),
    Str(<<" ", "l", "o", "a", "d", "\t", " ", "-", "1", " ", "x">>),
    Str(<<"A", "D", "D", " ", "1", "x">>) }

\* a memory of one cell that holds an input of the decoder
InitDecode ==
  /\ memory \in { ArrayOf(<<c>>) : c \in DecodeInputs }
  /\ size = 1
  /\ pc = 0
  /\ ir = Ins("NOP")
  /\ acc = 0
  /\ phase = "Idle"
  /\ halted = FALSE
  /\ outputs = <<>>
  /\ lastAction = ""
  /\ lastStored = <<>>
  /\ fetchedFrom = [pc |-> 0, length |-> 1, cell |-> Undef]
  /\ outLog = <<>>
  /\ steps = 0
  /\ loadedFrom = NotLoaded
  /\ Unmounted

\* step over every cell content the decoder is given
SpecDecode == InitDecode /\ [][Next]_vars

(* ------------------------------- claims -------------------------------- *)

\* C1: after any sequence of steps PC is within [0, size-1], size being the
\* number of cells the machine was loaded with.
C1_PCWithinLoadedSize == pc >= 0 /\ pc <= size - 1

\* the fields of the machine state, without the description
machine == <<memory, pc, ir, acc, phase, halted, outputs>>

\* C2: a step taken in a halted state returns a state equal in every field;
\* only the description may differ, and halted stays true.
C2_HaltedStepIsNoOp == [][halted => (machine' = machine /\ halted')]_vars

\* C2 witness: step has been called on a halted machine
C2_SteppedWhileHalted == halted /\ lastAction = "CPU detenida"

PhaseEdges ==
  { <<"Idle", "Fetch">>, <<"Execute", "Fetch">>,
    <<"Fetch", "Decode">>, <<"Decode", "Execute">> }

\* C3: a step of a machine that is not halted moves phase along one edge of
\* Idle->Fetch, Execute->Fetch, Fetch->Decode, Decode->Execute, and no step
\* enters Idle.
C3_PhaseCycle ==
  [][ /\ ~halted => <<phase, phase'>> \in PhaseEdges
      /\ phase' = "Idle" => phase = "Idle" ]_vars

\* C3 witness: a second cycle has started after a completed first one
C3_SecondCycle == ~halted /\ phase = "Decode" /\ pc > 0

NonBranchOps ==
  {"NOP", "LOAD", "LOADI", "STORE", "ADD", "ADDM", "SUB", "SUBM", "OUT", "DATA"}

\* C4: from a state in phase Idle or Execute whose cell memory[PC] decodes to
\* an opcode other than JMP, JZ, JNZ, HLT, INVALID, the three steps Fetch,
\* Decode, Execute end with PC = clamp(PC + 1, 0, size - 1), size being the
\* number of cells of that state's memory.
C4_LinearAdvance ==
  (phase = "Execute" /\ parseInstr(fetchedFrom.cell).op \in NonBranchOps)
    => pc = clamp(fetchedFrom.pc + 1, 0, fetchedFrom.length - 1)

\* C4 witness: a non-branch instruction in the last cell has executed
C4_ExecutedAtLastCell ==
  /\ phase = "Execute"
  /\ parseInstr(fetchedFrom.cell).op \in NonBranchOps
  /\ fetchedFrom.pc = fetchedFrom.length - 1
  /\ fetchedFrom.pc > 0

OutOfRange(a) == a < 0 \/ a > memory.length - 1

Jumps ==
  \/ Executing("JMP")
  \/ Executing("JZ") /\ acc = 0
  \/ Executing("JNZ") /\ acc # 0

\* C5: JMP a, a taken JZ a and a taken JNZ a with a outside [0, size-1] set
\* PC to clamp(a, 0, size-1) and do not halt (size: the cells of the memory).
C5_JumpTargetClamped ==
  [][ (Jumps /\ OutOfRange(arg))
        => (pc' = clamp(arg, 0, memory.length - 1) /\ ~halted') ]_vars

\* C5 witness: a jump to a target past the last cell has executed
C5_JumpedPastEnd ==
  /\ phase = "Execute" /\ ~halted
  /\ decoded.op \in {"JMP", "JZ", "JNZ"}
  /\ arg > memory.length - 1
  /\ pc = memory.length - 1
  /\ fetchedFrom.pc < memory.length - 2

\* C6: JZ a jumps to clamp(a) exactly when ACC = 0, JNZ a exactly when
\* ACC # 0; otherwise PC advances by one, clamped; ACC, memory and outputs
\* are unchanged.
C6_ConditionalJumps ==
  [][ /\ Executing("JZ") =>
           /\ pc' = IF acc = 0 THEN clamp(arg, 0, memory.length - 1)
                               ELSE clamp(pc + 1, 0, memory.length - 1)
           /\ UNCHANGED <<acc, memory, outputs>>
      /\ Executing("JNZ") =>
           /\ pc' = IF acc # 0 THEN clamp(arg, 0, memory.length - 1)
                               ELSE clamp(pc + 1, 0, memory.length - 1)
           /\ UNCHANGED <<acc, memory, outputs>> ]_vars

\* C6 witness: a JZ with ACC # 0 fell through to the next cell
C6_JZNotTaken ==
  /\ phase = "Execute" /\ decoded.op = "JZ" /\ acc # 0
  /\ pc = fetchedFrom.pc + 1

\* C7: for every address operand a, inside or outside [0, size-1], and every
\* ACC value v: after STORE a with ACC = v, and no later STORE to the same
\* cell, LOADI a sets ACC to v.
C7_StoreThenLoadI ==
  [][ (Executing("LOADI") /\ arg \in DOMAIN lastStored)
        => acc' = lastStored[arg] ]_vars

\* C8: STORE a writes ACC into the cell clamp(a, 0, size-1) and into no other
\* cell, so the memory always has exactly the cells 0..size-1.
C8_StoreWritesClampedCell ==
  /\ [](memory.length = size /\ DOMAIN memory.el = 0..(size - 1))
  /\ [][ Executing("STORE") =>
           \A k \in 0..(size - 1) :
             MemGet(memory', k) =
               IF k = clamp(arg, 0, size - 1) THEN Num(acc) ELSE MemGet(memory, k)
     ]_vars

\* the numeric value of the cell a clamped address denotes
clampedOperand == parseData(MemGet(memory, clamp(arg, 0, memory.length - 1)))

\* C9: LOADI a, ADDM a and SUBM a with a outside [0, size-1] use the numeric
\* value of the cell at clamp(a, 0, size-1), and do not halt.
C9_ReadAddressClamped ==
  [][ /\ (Executing("LOADI") /\ OutOfRange(arg))
           => (acc' = clampedOperand /\ ~halted')
      /\ (Executing("ADDM") /\ OutOfRange(arg))
           => (acc' = acc + clampedOperand /\ ~halted')
      /\ (Executing("SUBM") /\ OutOfRange(arg))
           => (acc' = acc - clampedOperand /\ ~halted') ]_vars

\* C10: outputs never has more than 50 entries.
C10_OutputsBounded == Len(outputs) <= OutCap

\* C10 witness: the list is full and the 5 the first OUT wrote has left it
C10_FirstOutputEvicted ==
  /\ Len(outputs) = OutCap
  /\ MemGet(memory, 0) = InsArg("LOAD", 5)
  /\ MemGet(memory, 1) = Ins("OUT")
  /\ \A i \in 1..Len(outputs) : outputs[i] # 5

\* C11: after n OUTs since load or reset, outputs is, in execution order, the
\* ACC values of the last min(n, 50) OUTs; after 51 OUTs its length is 50 and
\* the first OUT's entry is gone.
C11_OutputsAreLastFifty ==
  LET n == Len(outLog)
      k == Min(n, OutCap) IN
  /\ Len(outputs) = k
  /\ \A i \in 1..k : outputs[i] = outLog[n - k + i]

\* C11 witness: 51 OUTs have executed and the first one wrote another value
\* than the second
C11_FiftyOneOuts ==
  /\ Len(outLog) = OutCap + 1
  /\ outLog[1] # outLog[2]
  /\ outputs[1] = outLog[2]

\* the latest compileAndLoad call assembled this text with these bindings,
\* and it was loaded
LoadedWith(text, v) ==
  /\ loadedFrom # NotLoaded
  /\ loadedFrom.text = text
  /\ loadedFrom.vars = v
  /\ fits(Len(lines(text)))

\* three steps, Fetch, Decode and Execute, for each of the five lines
SumSteps == 3 * Len(lines(SrcSum))

\* C12: LOAD X / ADD Y / STORE Z / OUT / HLT assembled with X = 2, Y = 2 into
\* the 16 cells and stepped from the reset state is halted after its five
\* cycles, with ACC = 4 and outputs = [4]; it is not halted before.
C12_SumProgramHalts ==
  LoadedWith(SrcSum, VarsInitial) =>
    /\ steps >= SumSteps => (halted /\ acc = 4 /\ outputs = <<4>>)
    /\ steps < SumSteps => ~halted

\* C12 witness: the sum program has run to its halt
C12_SumProgramRan ==
  /\ LoadedWith(SrcSum, VarsInitial)
  /\ steps = SumSteps
  /\ halted
  /\ MemGet(memory, 7) = Num(4)

\* a compileAndLoad call has just returned
Compiled == lastAction' \in {CapacityMsg, CompiledMsg}

\* the lines.length of the call that has just returned
called == Len(lines(loadedFrom'.text))

\* C13: when the non-comment, non-blank lines plus 3 exceed memSize, assembly
\* fails and leaves memory, PC, IR, ACC, phase, halted and outputs as they
\* were; when lines + 3 = memSize, assembly succeeds.
C13_CapacityCheck ==
  [][ Compiled =>
        /\ called + 3 > defaultMemSize => (lastAction' = CapacityMsg /\ machine' = machine)
        /\ called + 3 = defaultMemSize =>
             /\ lastAction' = CompiledMsg
             /\ \A k \in 0..(called - 1) : MemGet(memory', k) = Ins("NOP")
             /\ \A k \in called..(defaultMemSize - 1) : MemGet(memory', k).t = "number"
    ]_vars

\* C13 witness: a text of memSize - 2 lines was rejected by a machine that
\* had stepped through the loaded program of memSize - 3 lines
C13_RejectedAfterFullLoad ==
  /\ lastAction = CapacityMsg
  /\ Len(lines(loadedFrom.text)) = defaultMemSize - 2
  /\ MemGet(memory, defaultMemSize - 4) = Ins("NOP")
  /\ MemGet(memory, defaultMemSize - 3).t = "number"
  /\ pc > 0

\* C14: after a successful assemble-and-load every cell past the program and
\* the three slots is empty, and PC = 0, ACC = 0, phase = Idle, halted = false,
\* outputs = empty, whatever the state was before, a halted one included.
C14_LoadReplacesAndResets ==
  [][ lastAction' = CompiledMsg =>
        /\ memory'.length = defaultMemSize
        /\ DOMAIN memory'.el = 0..(defaultMemSize - 1)
        /\ \A k \in (called + 3)..(defaultMemSize - 1) : MemGet(memory', k) = Empty
        /\ pc' = 0 /\ acc' = 0 /\ phase' = "Idle" /\ ~halted' /\ outputs' = <<>>
    ]_vars

\* C14 witness: a program was loaded over a halted machine that had printed
\* and whose memory held a cell past the new program's slots
C14_LoadedOverHalted ==
  /\ lastAction = CompiledMsg
  /\ loadedFrom.over.halted
  /\ loadedFrom.over.printed
  /\ loadedFrom.over.dirty

\* the opcodes of the lines of each source text, in source order
Opcodes(text) ==
  CASE text \in {SrcSum, SrcSumLower} -> <<"LOAD", "ADD", "STORE", "OUT", "HLT">>
    [] text = SrcOps -> <<"LOAD", "STORE", "LOADI", "ADDM", "SUBM", "SUB", "JZ",
                          "INVALID", "ADD", "JNZ", "JMP">>
    [] text = SrcEdges -> <<"LOAD", "STORE", "ADD", "OUT", "JMP">>
    [] text = SrcMul -> <<"LOAD", "INVALID", "STORE", "OUT", "HLT">>
    [] text = Nops(1) -> <<"NOP">>
    [] text = Nops(defaultMemSize - 3) -> [i \in 1..(defaultMemSize - 3) |-> "NOP"]
    [] text = Nops(defaultMemSize - 2) -> [i \in 1..(defaultMemSize - 2) |-> "NOP"]

\* the numbers the bindings of X, Y, Z stand for
Bound(v) ==
  CASE v = VarsInitial -> <<2, 2, 0>>
    [] v = VarsTyped -> <<3, 0, 0>>
    [] v = VarsNegative -> <<0 - 1, 2, 0>>

\* C15: for a program of n lines the cells n, n+1, n+2 hold the numbers bound
\* to X, Y, Z (0 for a missing or non-numeric binding, such as the unset Z),
\* and the cells 0..n-1 hold the n program lines in source order.
C15_SlotsFollowProgram ==
  lastAction = CompiledMsg =>
    LET ops == Opcodes(loadedFrom.text)
        n == Len(ops)
        b == Bound(loadedFrom.vars) IN
    /\ \A k \in 0..(n - 1) : parseInstr(MemGet(memory, k)).op = ops[k + 1]
    /\ \A j \in 0..2 : MemGet(memory, n + j) = Num(b[j + 1])

\* C15 witness: a text with comments and blank lines was loaded with typed
\* bindings, an empty input field and no Z
C15_LoadedTypedBindings ==
  /\ lastAction = CompiledMsg
  /\ loadedFrom.text = SrcSumLower
  /\ loadedFrom.vars = VarsTyped
  /\ MemGet(memory, 5) = Num(3)
  /\ MemGet(memory, 4) = Ins("HLT")

\* an operand token: one of the names X, Y, Z (i = 1, 2, 3) or a literal number
Name(i) == [kind |-> "name", i |-> i, n |-> 0]
Lit(n) == [kind |-> "lit", i |-> 0, n |-> n]
Row(mn, operand) == [mn |-> mn, arg |-> operand]

SumRows ==
  <<Row("LOAD", Name(1)), Row("ADD", Name(2)), Row("STORE", Name(3))>>

\* the lines with an operand of each source text, by cell: the mnemonic in
\* upper case and the operand token
Rows(text) ==
  CASE text \in {SrcSum, SrcSumLower} -> [k \in 0..2 |-> SumRows[k + 1]]
    [] text = SrcOps ->
         (0 :> Row("LOAD", Lit(3))) @@ (1 :> Row("STORE", Name(3))) @@
         (2 :> Row("LOADI", Name(1))) @@ (3 :> Row("ADDM", Name(2))) @@
         (4 :> Row("SUBM", Lit(20))) @@ (5 :> Row("SUB", Lit(4))) @@
         (6 :> Row("JZ", Lit(8))) @@ (8 :> Row("ADD", Lit(1))) @@
         (9 :> Row("JNZ", Lit(10))) @@ (10 :> Row("JMP", Lit(7)))
    [] text = SrcEdges ->
         (0 :> Row("LOAD", Name(2))) @@ (1 :> Row("STORE", Lit(0 - 1))) @@
         (2 :> Row("ADD", Name(3))) @@ (4 :> Row("JMP", Lit(99)))
    [] OTHER -> <<>>

\* the operand the claim has the assembler write: address(a) is what becomes
\* of a literal a taken as an address
Written(row, n, b, address(_)) ==
  IF row.mn \in AddrOps
  THEN IF row.arg.kind = "name" THEN n + row.arg.i - 1 ELSE address(row.arg.n)
  ELSE IF row.arg.kind = "name" THEN b[row.arg.i] ELSE row.arg.n

\* every cell of a line with an operand holds the mnemonic and that operand
OperandsWritten(address(_)) ==
  lastAction = CompiledMsg =>
    LET rows == Rows(loadedFrom.text)
        n == Len(Opcodes(loadedFrom.text))
        b == Bound(loadedFrom.vars) IN
    \A k \in DOMAIN rows :
      MemGet(memory, k) = InsArg(rows[k].mn, Written(rows[k], n, b, address))

AsIs(a) == a
Clamped(a) == clamp(a, 0, defaultMemSize - 1)

\* C16 as stated: for a line with an operand the assembler writes the slot
\* address of the name, or the literal number taken as an address, when the
\* mnemonic is LOADI, ADDM, SUBM, STORE, JMP, JZ or JNZ, and the bound value
\* of the name, or the literal, otherwise; names and mnemonics match in any
\* case and the mnemonic is written in upper case.
C16_OperandsAsWritten == OperandsWritten(AsIs)

\* C16 amended: as above, but a literal address is written clamped into
\* [0, memSize - 1].
C16_OperandsClamped == OperandsWritten(Clamped)

\* C16 witness: a text with a name as a value, a negative literal address and
\* a jump past the last cell was loaded
C16_LoadedEdges ==
  /\ lastAction = CompiledMsg
  /\ loadedFrom.text = SrcEdges
  /\ MemGet(memory, 0) = InsArg("LOAD", 2)
  /\ MemGet(memory, 1) = InsArg("STORE", 0)
  /\ MemGet(memory, 4) = InsArg("JMP", defaultMemSize - 1)

\* what parseInstr may be given in a state: the cells, a read past the last
\* cell (undefined), the IR
Raws == { MemGet(memory, k) : k \in 0..memory.length } \cup {ir}

OpSet ==
  {"NOP", "HLT", "OUT", "LOAD", "ADD", "SUB", "LOADI", "ADDM", "SUBM", "STORE",
   "JMP", "JZ", "JNZ", "DATA", "INVALID"}

Blank(s) == \A i \in 1..Len(s) : IsSpace(s[i])

\* the characters of a text up to its first white space
RECURSIVE Token(_)
Token(s) ==
  IF s = <<>> \/ IsSpace(Head(s)) THEN <<>> ELSE <<Head(s)>> \o Token(Tail(s))

\* the first token of a text that is not blank, in upper case
FirstToken(s) == toUpperCase(Token(TrimStart(s)))

Known(tok) == \E k \in DOMAIN Mnemonic : Mnemonic[k] = tok

\* C17: parseInstr returns, for null, a number or a string, one instruction
\* with an opcode of the fixed set: NOP for null and for an empty or blank
\* string, DATA with the number as operand for a number, INVALID for a string
\* whose first token is no known mnemonic.
C17_DecodeTotal ==
  \A raw \in Raws :
    LET d == parseInstr(raw) IN
    /\ d.op \in OpSet
    /\ (raw.t = "undefined" \/ (raw.t = "string" /\ Blank(raw.s)))
         => d = [op |-> "NOP", args |-> <<>>]
    /\ raw.t = "number" => d = [op |-> "DATA", args |-> <<raw.n>>]
    /\ (raw.t = "string" /\ ~Blank(raw.s) /\ ~Known(FirstToken(raw.s)))
         => d.op = "INVALID"

\* C17 witness: a blank cell was fetched and decoded, and executed as a NOP
C17_BlankCellExecuted ==
  /\ phase = "Execute"
  /\ ir.t = "string" /\ ir.s # <<>> /\ Blank(ir.s)
  /\ lastAction = "EXEC: NOP"

\* C18: a step of a machine that is not halted, in phase Idle or Execute,
\* sets phase to Fetch and IR from memory[PC], and leaves ACC, PC, memory,
\* halted and outputs as they were.
C18_FetchFrame ==
  [][ (~halted /\ phase \in {"Idle", "Execute"}) =>
        /\ phase' = "Fetch"
        /\ ir' = IF MemGet(memory, pc).t = "undefined" THEN Ins("NOP")
                                                        ELSE MemGet(memory, pc)
        /\ UNCHANGED <<acc, pc, memory, halted, outputs>>
    ]_vars

\* C18 witness: a fetch past cell 0 with a value in ACC and an output written
C18_FetchedMidProgram ==
  /\ phase = "Fetch"
  /\ pc > 0 /\ acc # 0 /\ outputs # <<>>
  /\ ir = MemGet(memory, pc)

\* C19: after a Fetch at a PC whose cell is the empty string or undefined,
\* IR holds NOP.
C19_EmptyCellFetchesNOP ==
  (phase = "Fetch" /\ fetchedFrom.cell \in {Empty, Undef}) => ir = Ins("NOP")

\* C20: a step of a machine that is not halted, in phase Fetch, sets phase to
\* Decode and leaves memory, PC, IR, ACC, halted and outputs as they were,
\* whatever the IR holds, text that is no instruction included.
C20_DecodeFrame ==
  [][ (~halted /\ phase = "Fetch") =>
        /\ phase' = "Decode"
        /\ UNCHANGED <<memory, pc, ir, acc, halted, outputs>>
    ]_vars

\* C20 witness: text that is no instruction was decoded and the machine is
\* not halted
C20_DecodedInvalid ==
  /\ phase = "Decode"
  /\ parseInstr(ir).op = "INVALID"
  /\ ~halted

\* C21: executing HLT or text that is no instruction sets halted and phase
\* Execute and leaves PC, ACC, IR, memory and outputs as they were: PC stays
\* at the address the instruction was fetched from.
C21_HaltFrame ==
  [][ (Executing("HLT") \/ Executing("INVALID")) =>
        /\ halted' /\ phase' = "Execute"
        /\ UNCHANGED <<pc, acc, ir, memory, outputs>>
        /\ pc' = fetchedFrom.pc
    ]_vars

\* C21 witness: the machine has halted on a HLT past cell 0, with a value in
\* ACC and an output written
C21_HaltedMidProgram ==
  /\ halted /\ phase = "Execute"
  /\ parseInstr(ir).op = "HLT"
  /\ pc > 0 /\ acc # 0 /\ outputs # <<>>
  /\ MemGet(memory, pc) = ir

\* C22: halted becomes true only in the Execute of an IR that decodes to HLT
\* or to INVALID; no operand, address, result or cell makes another opcode
\* halt the machine.
C22_OnlyHltAndInvalidHalt ==
  [][ (~halted /\ halted') =>
        (phase = "Decode" /\ parseInstr(ir).op \in {"HLT", "INVALID"}) ]_vars

\* C22 witness: a LOADI of an address past the last cell has executed and the
\* machine runs on
C22_ReadOutsideRunsOn ==
  /\ phase = "Execute" /\ ~halted
  /\ decoded.op = "LOADI"
  /\ arg > memory.length - 1

\* the cell the assembler writes for "mul Y"
MulCell(b) == Str(<<"M", "U", "L", " ">> \o NumToStr(b[2]))

\* C27: a text with a line of an unknown mnemonic is accepted, the line is
\* written in upper case with its operand resolved; the machine halts when it
\* executes that cell, with PC at that cell and the cells before it executed.
C27_UnknownMnemonicHaltsAtItsCell ==
  \A v \in VarSets :
    LoadedWith(SrcMul, v) =>
      LET b == Bound(v) IN
      /\ lastAction = CompiledMsg => MemGet(memory, 1) = MulCell(b)
      /\ steps < 6 => ~halted
      /\ steps >= 6 =>
           /\ halted /\ pc = 1 /\ phase = "Execute"
           /\ ir = MulCell(b) /\ parseInstr(ir).op = "INVALID"
           /\ acc = b[1] /\ outputs = <<>>

\* C27 witness: the multiplication template, loaded with typed bindings, has
\* halted at its MUL
C27_HaltedAtMul ==
  /\ LoadedWith(SrcMul, VarsTyped)
  /\ halted /\ pc = 1 /\ acc = 3
  /\ lastAction = "ERROR: instruccion invalida"

\* C28: step does not modify the memory it is given: after a STORE the
\* caller's previous state still shows the old content of the target cell,
\* and the returned state holds a separate memory with the new content.
C28_StoreCopiesMemory ==
  [][ /\ caller'.memory = memory
      /\ Executing("STORE") =>
           /\ ~caller'.same
           /\ MemGet(caller'.memory, arg) = MemGet(memory, arg)
           /\ MemGet(memory', arg) = Num(acc)
    ]_vars

\* C28 witness: a STORE has replaced an instruction of the given memory by
\* another value
C28_StoredOverInstruction ==
  /\ lastAction = "EXEC: STORE"
  /\ ~caller.same
  /\ MemGet(caller.memory, arg).t = "string"
  /\ MemGet(memory, arg).t = "number"

\* the text after its first token
RECURSIVE AfterToken(_)
AfterToken(s) ==
  IF s = <<>> \/ IsSpace(Head(s)) THEN s ELSE AfterToken(Tail(s))

\* the second token of a text, empty when there is none
SecondToken(s) == Token(TrimStart(AfterToken(TrimStart(s))))

\* C29: a text is decoded by its first token, whatever its case; a mnemonic
\* that takes an operand (LOAD, ADD, SUB, LOADI, ADDM, SUBM, STORE, JMP, JZ,
\* JNZ) gets the number written as second token, and 0 when the second token
\* is missing or no finite number; later tokens are ignored; HLT, NOP and OUT
\* carry no operand even when one is written.
C29_DecodeOperands ==
  \A raw \in Raws :
    (raw.t = "string" /\ Known(FirstToken(raw.s))) =>
      LET d == parseInstr(raw)
          second == SecondToken(raw.s)
      IN
      /\ Mnemonic[d.op] = FirstToken(raw.s)
      /\ d.op \in NoArgOps => d.args = <<>>
      /\ d.op \notin NoArgOps =>
           /\ Len(d.args) = 1
           /\ (second = <<>> \/ ~Number(second).fin) => d.args[1] = 0
           /\ (second # <<>> /\ Number(second).fin) => d.args[1] = Number(second).v

\* C29 witness: a lower-case load with white space around it, the operand -1
\* and a third token was executed with the operand -1
C29_ExecutedLowerCaseLoad ==
  /\ phase = "Execute"
  /\ ir = Str(<<" ", "l", "o", "a", "d", "\t", " ", "-", "1", " ", "x">>)
  /\ lastAction = "EXEC: LOAD"
  /\ acc = 0 - 1

\* C30: executing a number cell (DATA) moves PC to the next cell, clamped to
\* the last one, and changes neither ACC, IR, memory, outputs nor halted; a
\* program without HLT therefore runs through the X, Y and Z slots that
\* follow it, one cell per cycle, with nothing else changing.
C30_DataPassesThrough ==
  [][ /\ (Executing("DATA") /\ ~Compiled) =>
           /\ pc' = clamp(pc + 1, 0, memory.length - 1)
           /\ phase' = "Execute"
           /\ UNCHANGED <<acc, ir, memory, outputs, halted>>
      /\ \A v \in VarSets :
           LoadedWith(Nops(1), v)' =>
             /\ ~halted' /\ acc' = 0 /\ outputs' = <<>>
             /\ \A k \in 1..3 : MemGet(memory', k) = Num(Bound(v)[k])
             /\ steps' < MaxSteps => pc' = steps' \div 3
    ]_vars

\* C30 witness: the run of a one-line program has passed the three slots
C30_PassedTheSlots ==
  /\ LoadedWith(Nops(1), VarsNegative)
  /\ pc = 4
  /\ phase = "Execute"
  /\ lastAction = "EXEC: DATA (sin efecto)"
  /\ ir = Num(0)
  /\ MemGet(memory, 1) = Num(0 - 1)

\* the refs hold the state whenever no render is awaited
RefsFollowState ==
  ~pending =>
    /\ rendered = Deps(Live)
    /\ \A f \in DOMAIN rendered : refs[f] = rendered[f]
    /\ refs.timer = (running /\ ~halted)

\* the handler that runs is given an instruction of this opcode to execute
LiveExecuting(op) ==
  ~refs.halted /\ refs.phase = "Decode" /\ parseInstrJsx(refs.ir).op = op

\* the operand of the instruction the handler is given
liveArg == parseInstrJsx(refs.ir).args[1]

\* this step is a call of stepOnce
Called == steps' = steps + 1

\* C23: executing DIV 0 sets ACC to 0, moves PC to the next cell and leaves
\* the machine running (halted stays false).
C23_DivByZero ==
  [][ (Called /\ LiveExecuting("DIV") /\ liveArg = 0) =>
        /\ acc' = 0
        /\ pc' = clamp(pc + 1, 0, memSize - 1)
        /\ phase' = "Execute"
        /\ ~halted' /\ ~refs'.halted ]_vars

\* C23 witness: DIV 0 was executed on ACC = -7 and the machine goes on
C23_DividedByZero ==
  /\ lastAction = "EXEC: DIV (/0)"
  /\ MemGet(memory, 0) = InsArg("LOAD", 0 - 7)
  /\ acc = 0 /\ pc = 2 /\ ~halted /\ phase = "Execute"

Sign(n) == IF n < 0 THEN 0 - 1 ELSE IF n > 0 THEN 1 ELSE 0

\* q is n / d rounded toward zero: |q| is the largest count of |d| within
\* |n|, and q is negative only when n and d differ in sign
TowardZero(q, n, d) ==
  /\ Abs(q) * Abs(d) <= Abs(n)
  /\ Abs(n) < (Abs(q) + 1) * Abs(d)
  /\ q # 0 => Sign(q) = Sign(n) * Sign(d)

\* what C24 says of the step from ACC = before
MulDiv(before) ==
  /\ LiveExecuting("MUL") =>
       (acc' = before * liveArg /\ pc' = clamp(pc + 1, 0, memSize - 1))
  /\ (LiveExecuting("DIV") /\ liveArg # 0) =>
       (TowardZero(acc', before, liveArg) /\ pc' = clamp(pc + 1, 0, memSize - 1))

\* C24: executing MUL v sets ACC to ACC * v, executing DIV v with v # 0 sets
\* ACC to ACC / v rounded toward zero, for every combination of signs; both
\* move PC to the next cell.
C24_MulDivArithmetic == [][ Called => MulDiv(acc) ]_vars

\* the same of the handlers that run when the refs hold the state: the
\* arithmetic is the one C24 states
C24_InSync == [][ (Called /\ ~pending) => MulDiv(acc) ]_vars

\* -7 / 2 has given -3
C24_DividedNegative ==
  /\ lastAction = "EXEC: DIV"
  /\ MemGet(memory, 0) = InsArg("LOAD", 0 - 7)
  /\ MemGet(memory, 1) = Str(MnemonicJsx["DIV"] \o <<" ", "2">>)
  /\ acc = 0 - 3 /\ pc = 2

\* C26: a reset, from a halted machine as from any other, gives PC = 0,
\* ACC = 0, IR = NOP, phase Idle, halted false, no outputs and run mode off,
\* and leaves every memory cell; the first step after it fetches cell 0.
C26_ResetThenFetch ==
  [][ /\ (steps > 0 /\ steps' = 0) =>
           /\ pc' = 0 /\ acc' = 0 /\ ir' = Ins("NOP") /\ phase' = "Idle"
           /\ ~halted' /\ outputs' = <<>> /\ ~running'
           /\ memory' = memory
      /\ (steps = 0 /\ Called) =>
           /\ phase' = "Fetch"
           /\ ir' = MemGet(memory, 0)
           /\ UNCHANGED <<pc, acc, memory, outputs, halted>>
    ]_vars

\* C26 witness: the program that stores 4 in the last cell and prints it has
\* run to its halt, a reset has followed, and the next step has fetched cell 0
C26_FetchedAfterReset ==
  /\ steps = 1
  /\ phase = "Fetch" /\ pc = 0 /\ ir = InsArg("LOAD", 2)
  /\ MemGet(memory, memSize - 1) = Num(4)
  /\ acc = 0 /\ outputs = <<>> /\ ~halted /\ ~running

\* a text that is a number as written: digits, with a sign or without, and
\* white space around them
Numeral(s) ==
  LET t == Trim(s) IN
  \/ AllDigits(t)
  \/ (t # <<>> /\ Head(t) \in {"-", "+"} /\ AllDigits(Tail(t)))

\* the number a numeral denotes
NumeralValue(s) ==
  LET t == Trim(s) IN
  IF AllDigits(t) THEN DigitsVal(t, 0)
  ELSE IF Head(t) = "-" THEN 0 - DigitsVal(Tail(t), 0)
  ELSE DigitsVal(Tail(t), 0)

\* what C31 says a memory operand reads from a cell
Reads(cell) ==
  IF cell.t = "number" THEN cell.n
  ELSE IF cell.t = "string" /\ Numeral(cell.s) THEN NumeralValue(cell.s)
  ELSE 0

\* C31: LOADI, ADDM and SUBM read from the cell their operand denotes the
\* cell itself when it is a number, the number written when it is numeric
\* text, and 0 when it is empty or holds instruction text: LOADI then sets
\* ACC to 0 and ADDM leaves ACC as it was.
C31_MemoryOperandValue ==
  [][ LET v == Reads(MemGet(memory, arg)) IN
      /\ Executing("LOADI") => acc' = v
      /\ Executing("ADDM") => acc' = acc + v
      /\ Executing("SUBM") => acc' = acc - v ]_vars

\* C31 witness: with ACC = 3, LOADI of a cell that holds the text ADDM 0 has
\* set ACC to 0
C31_ReadInstructionText ==
  /\ lastAction = "EXEC: LOADI"
  /\ ir = InsArg("LOADI", 1)
  /\ MemGet(memory, 1) = InsArg("ADDM", 0)
  /\ MemGet(memory, 8) = Num(4)
  /\ acc = 0 /\ pc = 5

\* the phase that follows a phase in the cycle
Following(ph) ==
  CASE ph \in {"Idle", "Execute"} -> "Fetch"
    [] ph = "Fetch" -> "Decode"
    [] ph = "Decode" -> "Execute"

\* C32: every call of stepOnce on a machine that is not halted performs the
\* phase transition that follows the one the call before it performed, also
\* when that call was a timer tick whose render has not happened yet; no
\* phase is performed twice in a row.
C32_CallsFollowPhases ==
  [][ (Called /\ ~halted) => phase' = Following(phase) ]_vars

\* the same of the calls that find the refs holding the state
C32_InSync ==
  [][ (Called /\ ~halted /\ ~pending) => phase' = Following(phase) ]_vars

\* PC is at the last cell, which holds an instruction that neither halts nor
\* branches (an empty cell and a number included), and the machine runs
AtLastCell ==
  /\ ~halted
  /\ pc = memory.length - 1
  /\ parseInstr(MemGet(memory, pc)).op \in NonBranchOps

\* what C33 says of a step taken at the last cell: PC is at the last cell
\* after it, and the cell holds what it held or a number (DATA)
StaysAtLastCell ==
  /\ ~halted'
  /\ pc' = pc /\ pc' = memory'.length - 1
  /\ \/ MemGet(memory', pc) = MemGet(memory, pc)
     \/ MemGet(memory', pc).t = "number"
  /\ phase' = "Fetch" => ir' = MemGet(memory, pc)
  /\ Executing("ADD") => acc' = acc + arg
  /\ Executing("OUT") => outLog' = Append(outLog, acc)

\* C33: with PC at the last cell and a non-halting, non-branch instruction
\* in it, PC stays there, every cycle fetches and executes that cell again,
\* the machine does not halt, and an ADD or OUT there acts in every cycle.
C33_StuckAtLastCell == [][ AtLastCell => StaysAtLastCell ]_vars

\* a STORE whose operand lies past the last cell
StoresPastEnd == Executing("STORE") /\ arg > memory.length - 1

\* the same of every step but a STORE past the last cell
C33_UnlessMemoryGrows ==
  [][ (AtLastCell /\ ~StoresPastEnd) => StaysAtLastCell ]_vars

\* cells 0..k-1 hold instructions that neither branch nor halt, no STORE
\* among them writes into cells 0..k, and cell k holds HLT
StraightLine(k) ==
  /\ \A i \in 0..(k - 1) :
       LET d == parseInstr(MemGet(memory, i)) IN
       /\ d.op \in NonBranchOps
       /\ d.op = "STORE" => d.args[1] \notin 0..k
  /\ parseInstr(MemGet(memory, k)).op = "HLT"

\* C34: a straight-line program of k instructions followed by HLT in cell
\* k, stepped from the reset state, is halted after exactly 3 (k + 1) step
\* calls, with PC = k and phase Execute, and not before (steps counts the
\* calls up to MaxSteps).
C34_StraightLineHalts ==
  \A k \in 0..(memory.length - 1) :
    StraightLine(k) =>
      /\ (steps < 3 * (k + 1) /\ steps < MaxSteps) => ~halted
      /\ (steps >= 3 * (k + 1) /\ 3 * (k + 1) <= MaxSteps) =>
           (halted /\ pc = k /\ phase = "Execute")

\* C34 witness: the sample program of four instructions and HLT has halted
\* at its fifteenth step
C34_SampleHalted ==
  /\ StraightLine(4)
  /\ MemGet(memory, 0) = InsArg("LOAD", 5)
  /\ steps = 15 /\ halted /\ pc = 4 /\ outputs = <<8>>

AccOps == {"LOAD", "LOADI", "ADD", "ADDM", "SUB", "SUBM"}

\* the keys under which the two memories differ: cells, and the properties
\* a STORE to a negative address has set
Changed(m, n) ==
  { k \in DOMAIN m.el \cup DOMAIN n.el : MemGet(m, k) # MemGet(n, k) }

\* C35: across a step ACC changes only in the Execute of LOAD, LOADI, ADD,
\* ADDM, SUB, SUBM; memory changes only in the Execute of STORE, in at most
\* one of its cells (the elements at the indices 0, 1, ...); outputs
\* changes only in the Execute of OUT; IR changes only in Fetch; PC changes
\* only in Execute.
C35_FieldFrames ==
  [][ Counted =>
        /\ acc' # acc => \E op \in AccOps : Executing(op)
        /\ memory' # memory =>
             /\ Executing("STORE")
             /\ Cardinality({k \in Changed(memory, memory') : k >= 0}) <= 1
        /\ outputs' # outputs => Executing("OUT")
        /\ ir' # ir => (~halted /\ phase \in {"Idle", "Execute"})
        /\ pc' # pc => (~halted /\ phase = "Decode") ]_vars

\* C35 witness: the sample program has loaded, added, stored past the last
\* cell and printed
C35_EveryFieldChanged ==
  /\ lastAction = "EXEC: OUT"
  /\ acc = 8 /\ outputs = <<8>> /\ pc = 4
  /\ memory.length = 41 /\ MemGet(memory, 40) = Num(8)
  /\ ir = Ins("OUT")

\* with the properties that STORE sets under negative keys counted as cells
\* the memory frame fails: the slice of a later STORE drops them
C35_PropertiesAsCells ==
  [][ memory' # memory => Cardinality(Changed(memory, memory')) <= 1 ]_vars

\* the same of the component's stepOnce, with MUL and DIV
C35_LiveFrames ==
  [][ Called =>
        /\ acc' # acc => \E op \in AccOps \cup {"MUL", "DIV"} : LiveExecuting(op)
        /\ memory' # memory =>
             (LiveExecuting("STORE") /\ Cardinality(Changed(memory, memory')) <= 1)
        /\ outputs' # outputs => LiveExecuting("OUT")
        /\ ir' # ir => (~refs.halted /\ refs.phase \in {"Idle", "Execute"})
        /\ pc' # pc => (~refs.halted /\ refs.phase = "Decode") ]_vars

\* C36: once a STORE has written a cell, a Fetch of that cell loads the
\* number written, a DATA word, not the instruction the cell held, and the
\* DATA word executes as a no-op; a STORE into the cell of the instruction
\* in IR (a = PC) writes the cell and leaves IR, the instruction of this
\* cycle, as it is.
C36_SelfModification ==
  [][ /\ (~halted /\ phase \in {"Idle", "Execute"} /\ pc \in DOMAIN lastStored) =>
           (ir' = Num(lastStored[pc]) /\ phase' = "Fetch")
      /\ (Executing("DATA") /\ fetchedFrom.pc \in DOMAIN lastStored) =>
           (pc' = nextPC /\ UNCHANGED <<acc, memory, outputs, halted, ir>>)
      /\ (Executing("STORE") /\ arg = pc) =>
           (ir' = ir /\ MemGet(memory', pc) = Num(acc) /\ pc' = nextPC)
    ]_vars

\* C36 witness: STORE 1 in cell 1 has overwritten itself with 5, the loop
\* has come back, and cell 1 was fetched and executed as DATA
C36_ExecutedOverwrittenCell ==
  /\ lastAction = "EXEC: DATA (sin efecto)"
  /\ ir = Num(5)
  /\ fetchedFrom.pc = 1
  /\ 1 \in DOMAIN lastStored
  /\ MemGet(memory, 2) = InsArg("JMP", 0)
  /\ pc = 2 /\ acc = 5

\* this step is a call of stepOnce that runs doExecute
LiveExecute == Called /\ ~refs.halted /\ refs.phase = "Decode"

\* C38: after every Execute of the component accRef holds the ACC that the
\* Execute has just set, for every opcode that writes ACC, MUL and DIV
\* included, before the next render as after it.
C38_AccRefFollowsACC == [][ LiveExecute => refs'.acc = acc' ]_vars

\* the same of every opcode but MUL and DIV
C38_ButMulDiv ==
  [][ (LiveExecute /\ ~LiveExecuting("MUL") /\ ~LiveExecuting("DIV"))
        => refs'.acc = acc' ]_vars

\* C39: once HLT or an instruction that is none has executed, run mode is
\* off, and nothing but a reset changes PC, IR, ACC, memory, phase or
\* outputs: not the timeout that the halting tick has set, not a click on
\* Paso, not a run toggle.  (A reset is the step that ends halted.)
C39_HaltedStaysPut ==
  [][ /\ halted' => (~running' /\ ~refs'.running)
      /\ halted => (~halted' \/ UNCHANGED <<pc, ir, acc, memory, phase, outputs>>)
    ]_vars

\* C39 witness: the timeout set by the tick that executed HLT has fired
\* before the render and has returned
C39_TickAfterHalt ==
  /\ halted /\ pending /\ ~refs.timer
  /\ lastAction = "EXEC: HLT (CPU detenida)"
  /\ rendered.running /\ ~rendered.halted
  /\ pc = 2 /\ acc # 0

\* the component holding the state that step is given, its refs in sync
InSync ==
  [memory |-> memory, pc |-> pc, ir |-> ir, acc |-> acc, phase |-> phase,
   halted |-> halted, outputs |-> outputs, lastAction |-> lastAction,
   running |-> FALSE,
   refs |-> [running |-> FALSE, halted |-> halted, phase |-> phase,
             ir |-> ir, pc |-> pc, acc |-> acc, mem |-> memory,
             timer |-> FALSE]]

\* the state step returns is the state stepOnce leaves
SameAsStepOnce ==
  LET c == stepOnce(InSync) IN
  /\ memory' = c.memory /\ pc' = c.pc /\ ir' = c.ir /\ acc' = c.acc
  /\ phase' = c.phase /\ halted' = c.halted /\ outputs' = c.outputs

\* a state both can be in: a memory of memSize cells, and in IR no MUL or
\* DIV, which only the component knows
Shared ==
  /\ memory.length = memSize
  /\ parseInstrJsx(ir).op \notin {"MUL", "DIV"}

\* C37: from a state both can be in, step of cpu.js and stepOnce of the
\* component (its refs in sync) leave the same PC, IR, ACC, memory, phase,
\* halted and outputs, whatever the operand; so they agree after any number
\* of steps
C37_StepEqualsStepOnce == [][ (Shared /\ Called) => SameAsStepOnce ]_vars

\* what does hold for C37: they agree unless a STORE has an address outside
\* the memory
C37_UnlessStoredOutside ==
  [][ (Shared /\ Called /\ ~(Executing("STORE") /\ OutOfRange(arg)))
        => SameAsStepOnce ]_vars

\* a run toggle: the run mode changes, the machine has not halted, and no
\* step was made
Paused == running /\ ~running' /\ ~halted' /\ steps' = steps
Resumed == ~running /\ running' /\ ~halted' /\ steps' = steps

\* C40: with the run mode on and the timeouts firing, the program reaches
\* halted = true with the run mode off, unless the user switches the run
\* mode off first; a pause leaves the machine state and no timeout, a resume
\* leaves the machine state and sets a timeout, with phaseRef and pcRef at
\* the phase and the PC of the pause.
C40_RunModeHalts ==
  /\ running ~> ((halted /\ ~running) \/ (~halted /\ ~running))
  /\ [][ /\ Paused =>
              /\ UNCHANGED <<pc, ir, acc, memory, phase, halted, outputs>>
              /\ ~refs'.running /\ ~refs'.timer
         /\ Resumed =>
              /\ UNCHANGED <<pc, ir, acc, memory, phase, halted, outputs>>
              /\ refs'.running /\ refs'.timer
              /\ refs'.phase = phase /\ refs'.pc = pc
       ]_vars

\* the cap of the model never stops the run loop: what enables the stepping
\* tick is what TickStepped says
C40_TickEnabled == InRange(stepOnce(Live).acc)

\* C40 witness: a tick of the run loop has executed the HLT of LOAD 3,
\* MUL 2, HLT; the render before it showed the run mode on and HLT decoded
C40_HaltedInRunMode ==
  /\ halted /\ ~running /\ pending /\ rendered.running
  /\ rendered.phase = "Decode" /\ rendered.pc = 2
  /\ lastAction = "EXEC: HLT (CPU detenida)"
  /\ acc = 6

====
